---- MODULE Spec2Model ----
(***************************************************************************)
(* Payment dashboard server: the payment store (TypeORM repository over    *)
(* PostgreSQL) and the operations of PaymentsService / PaymentsController  *)
(* on it.  Time is counted in ticks of the server clock (UTC); a calendar  *)
(* day is DayLen ticks.  Amounts are counted in hundredths (the column is  *)
(* decimal(10,2)).                                                         *)
(***************************************************************************)
EXTENDS Integers, Sequences, FiniteSets, TLC

\* --------------------------------------------------------------- bounds
MaxPayments == 2
MaxRacePayments == 1
MaxTicks == 2
MaxLimit == 2
MaxDays == 2
MaxSeedRows == 1
DayLen == 2
StartDay == 8

\* ------------------------------------------------------ program constants
\* enum PaymentStatus
PaymentStatus == {"success", "failed", "pending"}
\* enum PaymentMethod
PaymentMethod == {"upi", "credit_card", "debit_card", "net_banking", "wallet"}
\* @IsEnum(['success', 'pending', 'failed']) of UpdatePaymentStatusDto
DtoStatus == {"success", "pending", "failed"}

\* The callers whose updateStatus requests may be in flight together.
Procs == {"u1", "u2"}

\* Offsets of the server's local time zone from UTC, in ticks.
TzOffsets == {-1, 0, 1}

VARIABLES
  payments,   \* the payments table: a sequence of rows, the id is the index
  now,        \* the clock (UTC ticks)
  tz,         \* the server's local time zone: local time = now + tz
  upd,        \* the updateStatus calls in flight, per caller
  list,       \* a client paging through GET /payments: the envelopes received
  csv,        \* the last GET /payments/export response
  stats,      \* a GET /payments/stats request: its position and what it has read
  trend,      \* a getRevenueTrend(days) call: its position and its entries
  build,      \* which of the repository's variants of the entity and of the
              \* filter DTO the server was built from
  crt,        \* the create calls in flight, per caller
  seed,       \* SeedService.seedDatabase at start-up: its position
  req,        \* the last list, export or analytics request and its response
  storeUp,    \* whether the database answers
  agg,        \* an aggregation request, at the endpoint or through ApiService
  users,      \* the users table: a sequence of rows, the id is the index
  ucr,        \* the users requests in flight, per caller
  storage,    \* localStorage of the client
  api,        \* the ApiService singleton: its token and its requests in flight
  addp,       \* AddPaymentScreen: its form, its loading flag, its submissions
  web,        \* loadTransactions of the web list and the dashboard
  txl         \* the mobile TransactionListScreen

vars == <<payments, now, tz, upd, list, csv, stats, trend, build, crt, seed, req, storeUp, agg, users, ucr, storage, api, addp, web, txl>>

\* ------------------------------------------------------------- the store
Ids == 1..Len(payments)

\* No paging begun: no filter chosen, no envelope received.
ListIdle == [active |-> FALSE, filters |-> [status |-> "", method |-> "",
                                           startDate |-> <<>>, endDate |-> <<>>],
             limit |-> 1, snap |-> <<>>, resp |-> <<>>]

\* No export requested yet.
CsvNone == [done |-> FALSE, filters |-> [status |-> "", method |-> "",
                                        startDate |-> <<>>, endDate |-> <<>>],
            snap |-> <<>>, text |-> <<>>]

\* No stats request yet.
StatsIdle == [pc |-> "idle", today |-> 0, weekAgo |-> 0,
              todayPayments |-> 0, weekPayments |-> 0, totalRevenue |-> 0,
              failedTransactions |-> 0, i |-> 0, revenueTrend |-> <<>>,
              paymentMethods |-> {}, statusBreakdown |-> {}, recentTransactions |-> <<>>]

\* No getRevenueTrend call yet.
TrendIdle == [pc |-> "idle", days |-> 0, i |-> 0, t0 |-> 0, t1 |-> 0, data |-> <<>>]

\* The repository holds two variants of payment.entity.ts (transactionId with
\* and without a unique constraint) and two of payment-filter.dto.ts (method
\* checked as an enum, or as any string); the later one of each is:
LatestBuild == [uniqueTransactionId |-> TRUE, enumMethodFilter |-> TRUE,
                latestUsersService |-> TRUE]
Builds == [uniqueTransactionId : BOOLEAN, enumMethodFilter : BOOLEAN,
           latestUsersService : BOOLEAN]

\* No create call in flight.
CrtIdle == [pc |-> "idle", dto |-> <<>>, transactionId |-> <<>>, collided |-> FALSE,
            attempts |-> 0, result |-> "none"]

\* Seeding has not run / no request made yet.
SeedIdle == [pc |-> "start", i |-> 0, rerun |-> FALSE]
ReqNone == [op |-> "none"]

UpdIdle == [pc |-> "idle", id |-> 0, status |-> "pending", entity |-> <<>>,
            result |-> "none"]

\* The state at start-up with an empty table, the server running in one of
\* the time zones zones and built as one of builds.
\* No aggregation request under way.  left: the queries still to run;
\* failed: a query found the store unreachable; status and body: what the
\* endpoint answered; result and value: what the caller was handed.
AggIdle == [pc |-> "idle", op |-> "", via |-> "", left |-> 0, failed |-> FALSE,
            status |-> 0, body |-> <<>>, result |-> "", value |-> <<>>]

\* No users request under way.  user: the object create returned; rows:
\* what findAll or findOne returned.
UcrIdle == [pc |-> "idle", op |-> "", dto |-> <<>>, result |-> "none",
            user |-> <<>>, rows |-> <<>>]

InitServer(zones, builds) ==
  /\ payments = <<>>
  /\ now = StartDay * DayLen
  /\ tz \in zones
  /\ upd = [p \in Procs |-> UpdIdle]
  /\ list = ListIdle
  /\ csv = CsvNone
  /\ stats = StatsIdle
  /\ trend = TrendIdle
  /\ build \in builds
  /\ crt = [p \in Procs |-> CrtIdle]
  /\ seed = SeedIdle
  /\ req = ReqNone
  /\ storeUp = TRUE
  /\ agg = AggIdle
  /\ users = <<>>
  /\ ucr = [p \in Procs |-> UcrIdle]

\* localStorage of the client: whether the platform has it (a call of it
\* throws where it has not), the item 'token' and the parsed item
\* 'transactions'.
StorageEmpty(ok) == [ok |-> ok, token |-> <<>>, transactions |-> <<>>]

\* ApiService as constructed over an empty storage: no token; nothing has
\* happened yet (last), no request is in flight (pending).
ApiFresh == [authToken |-> <<>>, last |-> "none", lastToken |-> <<>>, pending |-> <<>>]

\* AddPaymentScreen as mounted: an empty form, not loading, no handleSubmit
\* waiting for createPayment (active), no alert shown; path: how the last
\* handleSubmit ended ("invalid", "api", "local", "error").  variant: the screen
\* with the local fallback ("fallback") or the earlier one ("plain").
AddpFresh(variant) ==
  [variant |-> variant, formData |-> [amount |-> <<>>, receiver |-> <<>>],
   loading |-> FALSE, active |-> <<>>, alert |-> "", path |-> ""]

\* The web transaction list (and the dashboard) before loadTransactions has
\* run.  local: the list read from localStorage; server: response.data;
\* path: "api" or "fallback"; all: the combined list; recent: what the
\* dashboard shows of it.
WebIdle == [pc |-> "idle", local |-> <<>>, server |-> <<>>, path |-> "",
            all |-> <<>>, recent |-> <<>>]

\* The mobile transaction list once mounted: the state of useState and the
\* request of the mount effect (page 1, empty filters) on its way.  filters:
\* the status filter of the form; transactions: the pages displayed, each as
\* the filter and the page it was requested with; pending: the getPayments
\* calls not settled; sent: how many were made.  History of the handlers:
\* applied (applyFilters or clearFilters has run), current (the filters it
\* ran with), rejected (a call made since then was rejected).
TxlMounted ==
  [filters |-> "", transactions |-> <<>>, loading |-> TRUE, refreshing |-> FALSE,
   page |-> 1, hasMore |-> TRUE, pending |-> <<[page |-> 1, filters |-> ""]>>,
   sent |-> 1, applied |-> FALSE, current |-> "", rejected |-> FALSE]

\* The client as it starts: nothing stored, on a platform with localStorage
\* or without (oks), with one of the variants of AddPaymentScreen (screens).
InitClient(oks, screens) ==
  /\ storage \in {StorageEmpty(ok) : ok \in oks}
  /\ api = ApiFresh
  /\ addp \in {AddpFresh(v) : v \in screens}
  /\ web = WebIdle
  /\ txl = TxlMounted

InitBuild(zones, builds) == InitServer(zones, builds) /\ InitClient({TRUE}, {"fallback"})

InitIn(zones) == InitBuild(zones, {LatestBuild})

\* The clock advances.
Tick ==
  /\ now < StartDay * DayLen + MaxTicks
  /\ now' = now + 1
  /\ UNCHANGED <<payments, tz, upd, list, csv, stats, trend, build, crt, seed, req, storeUp, agg, users, ucr, storage, api, addp, web, txl>>

MutValidCreateDtoAnyStatus(dto) == dto.amount >= 1 /\ dto.method \in PaymentMethod

\* CreatePaymentDto under the ValidationPipe: @Min(0.01) amount,
\* @IsEnum(PaymentStatus) status, @IsEnum(PaymentMethod) method.
ValidCreateDto(dto) ==
  /\ dto.amount >= 1
  /\ dto.status \in PaymentStatus
  /\ dto.method \in PaymentMethod

\* PaymentsService.create: one INSERT; the id is generated, createdAt and
\* updatedAt are the row's @CreateDateColumn / @UpdateDateColumn defaults.
\* The transactionId column, which no query reads, is left out of the rows
\* here; createRequest and createSave below are the create that carries it.
createUpTo(dto, max) ==
  /\ Len(payments) < max
  /\ ValidCreateDto(dto)
  /\ payments' = Append(payments,
       [amount |-> dto.amount, receiver |-> dto.receiver, status |-> dto.status,
        method |-> dto.method, createdAt |-> now, updatedAt |-> now])
  /\ UNCHANGED <<now, tz, upd, list, csv, stats, trend, build, crt, seed, req, storeUp, agg, users, ucr, storage, api, addp, web, txl>>

create(dto) == createUpTo(dto, MaxPayments)

\* ---------------------------------------------------------------- filters
\* PaymentFilterDto: an absent status or method is "", an absent date is <<>>,
\* a date is <<d>>, the calendar day number d of a date-only string.
NoFilter == [status |-> "", method |-> "", startDate |-> <<>>, endDate |-> <<>>]

\* new Date("YYYY-MM-DD"): midnight UTC of that day.
DateOf(d) == d * DayLen

\* The where-clause findAll and exportToCSV build: equality on status and on
\* method when given, Between(start, end) on createdAt when both are given.
Matches(row, filters) ==
  /\ (filters.status # "" => row.status = filters.status)
  /\ (filters.method # "" => row.method = filters.method)
  /\ ((filters.startDate # <<>> /\ filters.endDate # <<>>) =>
        /\ DateOf(filters.startDate[1]) <= row.createdAt
        /\ row.createdAt <= DateOf(filters.endDate[1]))

MatchingIds(table, filters) == {i \in 1..Len(table) : Matches(table[i], filters)}

\* ---------------------------------------------------------------- findAll
Min(a, b) == IF a <= b THEN a ELSE b

\* Math.ceil(total / limit), for limit >= 1
CeilDiv(total, limit) == (total + limit - 1) \div limit

\* The orders in which the store may return the rows ids for
\* order: {createdAt: 'DESC'}: createdAt descending, rows of equal createdAt
\* in any order (the query names no second sort key).
Orderings(table, ids) ==
  {f \in [1..Cardinality(ids) -> ids] :
     /\ \A i, j \in 1..Cardinality(ids) : i # j => f[i] # f[j]
     /\ \A i, j \in 1..Cardinality(ids) :
          i < j => table[f[i]].createdAt >= table[f[j]].createdAt}

\* skip: (page - 1) * limit, take: limit, of the ordered rows
Slice(ord, skip, take) == SubSeq(ord, skip + 1, Min(skip + take, Len(ord)))

\* PaymentsService.findAll: findAndCount with the where-clause, the order, skip
\* and take, and the envelope built from it.  ord is the order the store
\* returned the matching rows in; data holds the ids of the rows returned.
findAll(table, filters, page, limit, ord) ==
  [data |-> Slice(ord, (page - 1) * limit, limit),
   total |-> Len(ord),
   page |-> page,
   limit |-> limit,
   totalPages |-> CeilDiv(Len(ord), limit)]

\* A client starts paging with some filters and page size.
listStart(filters, limit) ==
  /\ list' = [active |-> TRUE, filters |-> filters, limit |-> limit,
              snap |-> payments, resp |-> <<>>]
  /\ UNCHANGED <<payments, now, tz, upd, csv, stats, trend, build, crt, seed, req, storeUp, agg, users, ucr, storage, api, addp, web, txl>>

\* The client requests its next page: one findAll call.  fresh tells whether
\* the store was, at this query, as it was when the paging began.
findAllPage ==
  /\ list.active
  /\ Len(list.resp) <= MaxPayments
  /\ \E ord \in Orderings(payments, MatchingIds(payments, list.filters)) :
       list' = [list EXCEPT !.resp = Append(@,
                  [env |-> findAll(payments, list.filters, Len(list.resp) + 1,
                                   list.limit, ord),
                   fresh |-> (payments = list.snap)])]
  /\ UNCHANGED <<payments, now, tz, upd, csv, stats, trend, build, crt, seed, req, storeUp, agg, users, ucr, storage, api, addp, web, txl>>

\* ----------------------------------------------------------- exportToCSV
\* Text is a sequence of pieces; "," and "\n" are the separator pieces.
Header == <<"ID", ",", "Transaction ID", ",", "Amount", ",", "Status", ",", "Method",
            ",", "Receiver", ",", "Created At", ",", "Updated At">>

\* The template literal of one row.  The transaction id ('TXN', digits and
\* letters) is one piece; the receiver is written as it is stored.
CsvRow(table, i) ==
  <<ToString(i), ",", "TXN", ",", ToString(table[i].amount), ",", table[i].status,
    ",", table[i].method, ",">> \o table[i].receiver \o
  <<",", ToString(table[i].createdAt), ",", ToString(table[i].updatedAt)>>

\* rows.join('\n')
RECURSIVE JoinRows(_, _)
JoinRows(table, ord) ==
  IF Len(ord) = 0 THEN <<>>
  ELSE IF Len(ord) = 1 THEN CsvRow(table, ord[1])
  ELSE CsvRow(table, ord[1]) \o <<"\n">> \o JoinRows(table, Tail(ord))

\* header + rows of PaymentsService.exportToCSV
CsvText(table, ord) == Header \o <<"\n">> \o JoinRows(table, ord)

\* GET /payments/export: one find with the where-clause and the order.
exportToCSV(filters) ==
  /\ \E ord \in Orderings(payments, MatchingIds(payments, filters)) :
       csv' = [done |-> TRUE, filters |-> filters, snap |-> payments,
               text |-> CsvText(payments, ord)]
  /\ UNCHANGED <<payments, now, tz, upd, list, stats, trend, build, crt, seed, req, storeUp, agg, users, ucr, storage, api, addp, web, txl>>

\* ------------------------------------------------------------ aggregates
\* getStats() of the service and of the controller call getRevenueTrend for
\* 7 days; the controller asks for the 5 most recent transactions.
TrendDays == 7
RecentLimit == 5

RECURSIVE SumAmount(_, _)
SumAmount(table, ids) ==
  IF ids = {} THEN 0
  ELSE LET i == CHOOSE x \in ids : TRUE
       IN table[i].amount + SumAmount(table, ids \ {i})

\* SELECT SUM(amount) ...: NULL (here <<>>) over no rows, else <<the sum>>.
SqlSum(table, ids) == IF ids = {} THEN <<>> ELSE <<SumAmount(table, ids)>>

\* parseFloat(x?.total || '0') and Number(x?.total ?? 0)
NumberOrZero(sum) == IF sum = <<>> THEN 0 ELSE sum[1]

WithStatus(table, status) == {i \in 1..Len(table) : table[i].status = status}

\* Between(from, to) on createdAt
CreatedBetween(table, from, to) ==
  {i \in 1..Len(table) : from <= table[i].createdAt /\ table[i].createdAt <= to}

\* The calendar day of the server's local time at t, and of UTC.
LocalDay(t) == (t + tz) \div DayLen
UtcDay(t) == t \div DayLen

\* date.setHours(0, 0, 0, 0): the local midnight of local day d, as a time.
LocalMidnight(d) == d * DayLen - tz

MutTotalRevenueAllRows(table) == NumberOrZero(SqlSum(table, 1..Len(table)))

\* The total revenue query of getStats.
TotalRevenue(table) == NumberOrZero(SqlSum(table, WithStatus(table, "success")))

\* The failed transactions query of getStats.
FailedTransactions(table) == Cardinality(WithStatus(table, "failed"))

\* One pass of the loop of getRevenueTrend at time t for day offset i: the
\* local midnight i days back, the revenue of the success rows created from
\* it up to the next local midnight, and the date as
\* date.toISOString().split('T')[0], the UTC day of that local midnight.
TrendEntry(table, t, i) ==
  LET date == LocalMidnight(LocalDay(t) - i)
      nextDay == date + DayLen
      rows == {r \in WithStatus(table, "success") :
                 table[r].createdAt >= date /\ table[r].createdAt < nextDay}
  IN [date |-> UtcDay(date), revenue |-> NumberOrZero(SqlSum(table, rows))]

\* Math.round(count / totalCount * 100)
Percentage(count, totalCount) == (200 * count + totalCount) \div (2 * totalCount)

\* getPaymentMethodsBreakdown: GROUP BY method, one entry per method present.
PaymentMethodsBreakdown(table) ==
  LET totalCount == Len(table)
      group(m) == {i \in 1..Len(table) : table[i].method = m}
  IN {[method |-> m, count |-> Cardinality(group(m)),
       total |-> NumberOrZero(SqlSum(table, group(m))),
       percentage |-> IF totalCount > 0 THEN Percentage(Cardinality(group(m)), totalCount)
                      ELSE 0] :
        m \in {table[i].method : i \in 1..Len(table)}}

MutStatusBreakdownSettled(table) ==
  {[status |-> st, count |-> Cardinality(WithStatus(table, st)),
    amount |-> NumberOrZero(SqlSum(table, WithStatus(table, st)))] :
     st \in {table[i].status : i \in 1..Len(table)} \ {"pending"}}

\* getStatusBreakdown: GROUP BY status, one entry per status present.
StatusBreakdown(table) ==
  {[status |-> st, count |-> Cardinality(WithStatus(table, st)),
    amount |-> NumberOrZero(SqlSum(table, WithStatus(table, st)))] :
     st \in {table[i].status : i \in 1..Len(table)}}

\* getRevenueTrend(days), called on its own: the loop runs one query per
\* pass, reading the clock anew in each.
getRevenueTrendCall(days) ==
  /\ trend.pc \in {"idle", "done"}
  /\ trend' = [pc |-> IF days > 0 THEN "loop" ELSE "done", days |-> days,
               i |-> days - 1, t0 |-> now, t1 |-> now, data |-> <<>>]
  /\ UNCHANGED <<payments, now, tz, upd, list, csv, stats, build, crt, seed, req, storeUp, agg, users, ucr, storage, api, addp, web, txl>>

getRevenueTrendPass ==
  /\ trend.pc = "loop"
  /\ trend' = [trend EXCEPT !.data = Append(@, TrendEntry(payments, now, trend.i)),
                            !.i = @ - 1,
                            !.t1 = now,
                            !.pc = IF trend.i = 0 THEN "done" ELSE "loop"]
  /\ UNCHANGED <<payments, now, tz, upd, list, csv, stats, build, crt, seed, req, storeUp, agg, users, ucr, storage, api, addp, web, txl>>

\* GET /payments/stats.  The controller awaits the service's getStats, then
\* the two breakdowns, the recent transactions and the trend; getStats awaits
\* its four queries and its own trend.  Each step below is one query.
getStatsRequest ==
  /\ stats.pc = "idle"
  /\ stats' = [StatsIdle EXCEPT !.pc = "todayPayments",
                                !.today = LocalMidnight(LocalDay(now)),
                                !.weekAgo = now - 7 * DayLen]
  /\ UNCHANGED <<payments, now, tz, upd, list, csv, trend, build, crt, seed, req, storeUp, agg, users, ucr, storage, api, addp, web, txl>>

Read(field, value, next) == [stats EXCEPT ![field] = value, !.pc = next]

getStatsQuery ==
  /\ \/ /\ stats.pc = "todayPayments"
        /\ stats' = Read("todayPayments",
                          Cardinality(CreatedBetween(payments, stats.today, now)),
                          "weekPayments")
     \/ /\ stats.pc = "weekPayments"
        /\ stats' = Read("weekPayments",
                          Cardinality(CreatedBetween(payments, stats.weekAgo, now)),
                          "totalRevenue")
     \/ /\ stats.pc = "totalRevenue"
        /\ stats' = Read("totalRevenue", TotalRevenue(payments), "failedTransactions")
     \/ /\ stats.pc = "failedTransactions"
        /\ stats' = [Read("failedTransactions", FailedTransactions(payments), "serviceTrend")
                       EXCEPT !.i = TrendDays - 1]
     \/ /\ stats.pc = "serviceTrend"
        /\ stats' = [Read("revenueTrend",
                           Append(stats.revenueTrend, TrendEntry(payments, now, stats.i)),
                           IF stats.i = 0 THEN "paymentMethods" ELSE "serviceTrend")
                       EXCEPT !.i = @ - 1]
     \/ /\ stats.pc = "paymentMethods"
        /\ stats' = Read("paymentMethods", PaymentMethodsBreakdown(payments),
                          "statusBreakdown")
     \/ /\ stats.pc = "statusBreakdown"
        /\ stats' = Read("statusBreakdown", StatusBreakdown(payments),
                          "recentTransactions")
     \/ /\ stats.pc = "recentTransactions"
        /\ \E ord \in Orderings(payments, 1..Len(payments)) :
             stats' = [Read("recentTransactions", Slice(ord, 0, RecentLimit),
                            "controllerTrend")
                         EXCEPT !.i = TrendDays - 1, !.revenueTrend = <<>>]
     \/ /\ stats.pc = "controllerTrend"
        /\ stats' = [Read("revenueTrend",
                           Append(stats.revenueTrend, TrendEntry(payments, now, stats.i)),
                           IF stats.i = 0 THEN "done" ELSE "controllerTrend")
                       EXCEPT !.i = @ - 1]
  /\ UNCHANGED <<payments, now, tz, upd, list, csv, trend, build, crt, seed, req, storeUp, agg, users, ucr, storage, api, addp, web, txl>>

\* return {...stats, paymentMethods, statusBreakdown, recentTransactions,
\* revenueTrend}: the response leaves the server.
getStatsReturn ==
  /\ stats.pc = "done"
  /\ stats' = StatsIdle
  /\ UNCHANGED <<payments, now, tz, upd, list, csv, trend, build, crt, seed, req, storeUp, agg, users, ucr, storage, api, addp, web, txl>>

\* ---------------------------------------------------------- updateStatus
\* PaymentsController.updateStatus: the ValidationPipe checks the body
\* against UpdatePaymentStatusDto before the service is called.  A direct
\* call of the service (direct = TRUE) has no pipe in front of it.
updateStatusRequest(p, id, status, direct) ==
  /\ upd[p].pc = "idle"
  /\ IF ~direct /\ status \notin DtoStatus
       THEN upd' = [upd EXCEPT ![p] = [UpdIdle EXCEPT !.result = "BadRequest"]]
       ELSE upd' = [upd EXCEPT ![p] = [UpdIdle EXCEPT !.pc = "findOne", !.id = id,
                                                      !.status = status]]
  /\ UNCHANGED <<payments, now, tz, list, csv, stats, trend, build, crt, seed, req, storeUp, agg, users, ucr, storage, api, addp, web, txl>>

MutIsPaymentStatusAny(status) == TRUE

\* Object.values(PaymentStatus).includes(status)
IsPaymentStatus(status) == status \in PaymentStatus

MutUpdatedEntityKeepsTime(payment, status, t) == [payment EXCEPT !.status = status]

\* payment.status = status; payment.updatedAt = new Date()
UpdatedEntity(payment, status, t) == [payment EXCEPT !.status = status, !.updatedAt = t]

\* findOne({where: {id}}) and the code up to the save: the NotFound and the
\* status check, then the assignments to the loaded entity.
updateStatusLoad(p) ==
  /\ upd[p].pc = "findOne"
  /\ LET u == upd[p] IN
       IF u.id \notin Ids
         THEN upd' = [upd EXCEPT ![p] = [UpdIdle EXCEPT !.result = "NotFound"]]
       ELSE IF ~IsPaymentStatus(u.status)
         THEN upd' = [upd EXCEPT ![p] = [UpdIdle EXCEPT !.result = "InvalidStatus"]]
       ELSE upd' = [upd EXCEPT ![p] =
                      [u EXCEPT !.pc = "save",
                                !.entity = <<UpdatedEntity(payments[u.id], u.status, now)>>]]
  /\ UNCHANGED <<payments, now, tz, list, csv, stats, trend, build, crt, seed, req, storeUp, agg, users, ucr, storage, api, addp, web, txl>>

MutSavedRowFirstWins(row, entity) ==
  IF row.updatedAt > entity.updatedAt THEN row ELSE entity

\* paymentsRepository.save(payment): the row takes the entity's columns.
SavedRow(row, entity) == entity

MutUpdateStatusSaveEveryRow(p) ==
  /\ upd[p].pc = "save"
  /\ payments' = [i \in 1..Len(payments) |->
                    [payments[i] EXCEPT !.status = upd[p].status]]
  /\ upd' = [upd EXCEPT ![p] = [UpdIdle EXCEPT !.result = "ok"]]
  /\ UNCHANGED <<now, tz, list, csv, stats, trend, build, crt, seed, req, storeUp, agg, users, ucr, storage, api, addp, web, txl>>

updateStatusSave(p) ==
  /\ upd[p].pc = "save"
  /\ LET u == upd[p] IN
       /\ payments' = [payments EXCEPT ![u.id] = SavedRow(payments[u.id], u.entity[1])]
       /\ upd' = [upd EXCEPT ![p] = [UpdIdle EXCEPT !.result = "ok"]]
  /\ UNCHANGED <<now, tz, list, csv, stats, trend, build, crt, seed, req, storeUp, agg, users, ucr, storage, api, addp, web, txl>>

\* ------------------------------------------------------------ the inputs
Receivers == {<<"Acme">>}
UpdDtos == [amount : {0, 100}, receiver : Receivers,
            status : {"success", "pending", "refunded"}, method : {"upi", "cash"}]
StatusInputs == PaymentStatus \cup {"refunded"}

\* Concurrent updateStatus calls on a small store.
NextUpdate ==
  \/ Tick
  \/ \E dto \in UpdDtos : createUpTo(dto, MaxRacePayments)
  \/ \E p \in Procs, id \in 1..(MaxRacePayments + 1), s \in StatusInputs, d \in BOOLEAN :
       updateStatusRequest(p, id, s, d)
  \/ \E p \in Procs : updateStatusLoad(p)
  \/ \E p \in Procs : updateStatusSave(p)

InitUpdate == InitIn({0})

SpecUpdate == InitUpdate /\ [][NextUpdate]_vars

\* create and updateStatus calls, one at a time.
NextStore ==
  \/ Tick
  \/ \E dto \in UpdDtos : create(dto)
  \/ \E id \in 1..(MaxPayments + 1), s \in StatusInputs, d \in BOOLEAN :
       updateStatusRequest("u1", id, s, d)
  \/ updateStatusLoad("u1")
  \/ updateStatusSave("u1")

SpecStore == InitUpdate /\ [][NextStore]_vars

\* Paging and export of a growing store.
ListDtos == [amount : {100}, receiver : {<<"Acme">>, <<"Acme", "\n", "Ltd">>},
             status : {"success", "pending"}, method : {"upi"}]
ListFilters == {NoFilter, [NoFilter EXCEPT !.status = "success"],
                [NoFilter EXCEPT !.startDate = <<StartDay>>, !.endDate = <<StartDay + 1>>]}

NextList ==
  \/ Tick
  \/ \E dto \in ListDtos : create(dto)
  \/ \E f \in ListFilters, limit \in 1..MaxLimit : listStart(f, limit)
  \/ findAllPage
  \/ \E f \in ListFilters : exportToCSV(f)

SpecList == InitUpdate /\ [][NextList]_vars

\* getRevenueTrend calls while payments are created and the clock runs, in
\* any of the server time zones.
TrendDtos == [amount : {100}, receiver : Receivers, status : {"success"}, method : {"upi"}]

NextTrend ==
  \/ Tick
  \/ \E dto \in TrendDtos : create(dto)
  \/ \E days \in {1, MaxDays, TrendDays} : getRevenueTrendCall(days)
  \/ getRevenueTrendPass

InitTrend == InitIn(TzOffsets)

SpecTrend == InitTrend /\ [][NextTrend]_vars

\* Stats requests with no concurrent writer: payments are created and their
\* status is updated between the requests, never while one is in flight.  The
\* clock stands still here: the aggregates checked under this specification
\* (total revenue, failed count, the two breakdowns) do not read it.
StatsDtos == [amount : {100, 250}, receiver : Receivers, status : {"success", "pending"},
              method : {"upi", "wallet"}]

NextStats ==
  \/ stats.pc = "idle" /\ \E dto \in StatsDtos : create(dto)
  \/ stats.pc = "idle" /\ \E id \in 1..MaxPayments, s \in PaymentStatus :
                            updateStatusRequest("u1", id, s, FALSE)
  \/ updateStatusLoad("u1")
  \/ updateStatusSave("u1")
  \/ upd["u1"].pc = "idle" /\ getStatsRequest
  \/ getStatsQuery
  \/ getStatsReturn

SpecStats == InitUpdate /\ [][NextStats]_vars

\* A stats request with payments created while it is in flight.
RaceDtos == [amount : {100}, receiver : Receivers, status : {"success", "failed"},
             method : {"upi"}]

NextStatsRace ==
  \/ \E dto \in RaceDtos : create(dto)
  \/ getStatsRequest
  \/ getStatsQuery
  \/ getStatsReturn

SpecStatsRace == InitUpdate /\ [][NextStatsRace]_vars

\* ------------------------------------------- create with its transactionId
\* Math.random().toString(36).substr(2, 5).toUpperCase(): the suffixes drawn.
Suffixes == {"A", "B"}

\* 'TXN' + Date.now() + suffix, as the pieces of the text
generateTransactionId(t, suffix) == <<"TXN", ToString(t), suffix>>

\* The create calls that have generated their id and not yet inserted.
Inserting == {p \in Procs : crt[p].pc = "save"}

\* POST /payments once the server listens: the ValidationPipe checks the body,
\* PaymentsService.create builds the entity with a generated transactionId.
createRequestUpTo(p, dto, max) ==
  /\ seed.pc = "done"
  /\ crt[p].pc = "idle"
  /\ Len(payments) + Cardinality(Inserting) < max
  /\ IF ~ValidCreateDto(dto)
       THEN crt' = [crt EXCEPT ![p] = [CrtIdle EXCEPT !.result = "BadRequest"]]
       ELSE \E sfx \in Suffixes :
              crt' = [crt EXCEPT ![p] =
                        [CrtIdle EXCEPT !.pc = "save", !.dto = <<dto>>,
                                        !.transactionId = generateTransactionId(now, sfx)]]
  /\ UNCHANGED <<payments, now, tz, upd, list, csv, stats, trend, build, seed, req, storeUp, agg, users, ucr, storage, api, addp, web, txl>>

createRequest(p, dto) == createRequestUpTo(p, dto, MaxPayments)

\* The row an INSERT of entity fields e stores at time t: createdAt is the
\* given one or else the column default, updatedAt the column default.
InsertedRow(e, createdAt, t) ==
  [amount |-> e.amount, receiver |-> e.receiver, status |-> e.status,
   method |-> e.method, transactionId |-> e.transactionId,
   createdAt |-> IF createdAt = <<>> THEN t ELSE createdAt[1], updatedAt |-> t]

\* Whether the table holds a row with this transactionId.
Collides(txn) == \E i \in Ids : payments[i].transactionId = txn

\* paymentsRepository.save(payment) of create: one INSERT, made once.  With
\* the unique column a duplicate transactionId fails the statement
\* (QueryFailedError); without it the duplicate is stored.
createSave(p) ==
  /\ crt[p].pc = "save"
  /\ LET c == crt[p]
         e == c.dto[1] @@ [transactionId |-> c.transactionId]
     IN IF Collides(c.transactionId) /\ build.uniqueTransactionId
          THEN /\ payments' = payments
               /\ crt' = [crt EXCEPT ![p] = [CrtIdle EXCEPT !.result = "QueryFailedError",
                                                           !.collided = TRUE, !.attempts = 1]]
          ELSE /\ payments' = Append(payments, InsertedRow(e, <<>>, now))
               /\ crt' = [crt EXCEPT ![p] = [CrtIdle EXCEPT !.result = "ok",
                                                           !.collided = Collides(c.transactionId),
                                                           !.attempts = 1]]
  /\ UNCHANGED <<now, tz, upd, list, csv, stats, trend, build, seed, req, storeUp, agg, users, ucr, storage, api, addp, web, txl>>

\* ------------------------------------------------------------------ users
\* How many users are created beyond the seeded ones.
MaxNewUsers == 2

\* A password as typed, and bcrypt.hash(password, 10) of it: the hash value
\* (with the salt bcrypt draws) is known only by what it is the hash of.
Plain(text) == [hashed |-> FALSE, of |-> text]
bcryptHash(password) == [hashed |-> TRUE, of |-> password.of]

\* The users seedDefaultUsers creates: four in the later service, two in the
\* earlier one.
DefaultUsers ==
  IF build.latestUsersService
    THEN << [username |-> "admin", password |-> Plain("admin123"), role |-> "admin"],
            [username |-> "viewer", password |-> Plain("viewer123"), role |-> "viewer"],
            [username |-> "demo_admin", password |-> Plain("demo123"), role |-> "admin"],
            [username |-> "test_user", password |-> Plain("test123"), role |-> "viewer"] >>
    ELSE << [username |-> "admin", password |-> Plain("admin123"), role |-> "admin"],
            [username |-> "viewer", password |-> Plain("viewer123"), role |-> "viewer"] >>

\* @Column({ unique: true }) username: whether the table holds the name.
UsernameTaken(table, username) == \E i \in 1..Len(table) : table[i].username = username

\* usersRepository.create({...}) of the services: the entity that is saved.
MutUserEntityPlain(username, password, role) ==
  [username |-> username, password |-> password,
   role |-> IF role = "" THEN "viewer" ELSE role]

UserEntity(username, password, role) ==
  [username |-> username, password |-> bcryptHash(password),
   role |-> IF role = "" THEN "viewer" ELSE role]

\* usersRepository.save(user) of a new entity: one INSERT, which the unique
\* column fails for a name the table holds.
UserInserted(table, entity) ==
  IF UsernameTaken(table, entity.username) THEN table ELSE Append(table, entity)

\* select: ['id', 'username', 'role', ...] of findAll and findOne, and
\* const { password, ...result } = savedUser of create.
WithoutPassword(table, id) ==
  [id |-> id, username |-> table[id].username, role |-> table[id].role]

\* POST /users up to the save.  The later UsersService looks the username up
\* and throws ConflictException when it is found; the earlier one has no
\* such check.
userCreateRequest(p, dto) ==
  /\ seed.pc = "done"
  /\ ucr[p].pc = "idle"
  /\ Len(users) + Cardinality({q \in Procs : ucr[q].pc = "save"}) < Len(DefaultUsers) + MaxNewUsers
  /\ IF build.latestUsersService /\ UsernameTaken(users, dto.username)
       THEN ucr' = [ucr EXCEPT ![p] = [UcrIdle EXCEPT !.pc = "done", !.op = "create",
                                                      !.dto = <<dto>>,
                                                      !.result = "Conflict"]]
       ELSE ucr' = [ucr EXCEPT ![p] = [UcrIdle EXCEPT !.pc = "save", !.op = "create",
                                                      !.dto = <<dto>>]]
  /\ UNCHANGED <<payments, now, tz, upd, list, csv, stats, trend, build, crt, seed, req, storeUp, agg, users, storage, api, addp, web, txl>>

\* bcrypt.hash, usersRepository.create and save of create, and its return
\* value.  A username taken meanwhile fails the INSERT: the driver's
\* QueryFailedError leaves the service as it is thrown.
userCreateSave(p) ==
  /\ ucr[p].pc = "save"
  /\ LET dto == ucr[p].dto[1]
         entity == UserEntity(dto.username, dto.password, dto.role)
     IN IF UsernameTaken(users, dto.username)
          THEN /\ users' = users
               /\ ucr' = [ucr EXCEPT ![p] = [@ EXCEPT !.pc = "done",
                                                      !.result = "QueryFailedError"]]
          ELSE /\ users' = UserInserted(users, entity)
               /\ ucr' = [ucr EXCEPT ![p] =
                            [@ EXCEPT !.pc = "done", !.result = "ok",
                                      !.user = <<WithoutPassword(users', Len(users'))>>]]
  /\ UNCHANGED <<payments, now, tz, upd, list, csv, stats, trend, build, crt, seed, req, storeUp, agg, storage, api, addp, web, txl>>

\* GET /users: findAll.
userFindAll(p) ==
  /\ seed.pc = "done"
  /\ ucr[p].pc = "idle"
  /\ ucr' = [ucr EXCEPT ![p] =
               [UcrIdle EXCEPT !.pc = "done", !.op = "findAll", !.result = "ok",
                               !.rows = [i \in 1..Len(users) |-> WithoutPassword(users, i)]]]
  /\ UNCHANGED <<payments, now, tz, upd, list, csv, stats, trend, build, crt, seed, req, storeUp, agg, users, storage, api, addp, web, txl>>

\* findOne(id): the row without its password, or null.
userFindOne(p, id) ==
  /\ seed.pc = "done"
  /\ ucr[p].pc = "idle"
  /\ ucr' = [ucr EXCEPT ![p] =
               [UcrIdle EXCEPT !.pc = "done", !.op = "findOne", !.result = "ok",
                               !.rows = IF id \in 1..Len(users)
                                          THEN <<WithoutPassword(users, id)>> ELSE <<>>]]
  /\ UNCHANGED <<payments, now, tz, upd, list, csv, stats, trend, build, crt, seed, req, storeUp, agg, users, storage, api, addp, web, txl>>

\* createSeedUser(username, password, role): hash and save, no look-up.
createSeedUser(p, username, password, role) ==
  /\ seed.pc = "done"
  /\ ucr[p].pc = "idle"
  /\ Len(users) + Cardinality({q \in Procs : ucr[q].pc = "save"}) < Len(DefaultUsers) + MaxNewUsers
  /\ users' = UserInserted(users, UserEntity(username, password, role))
  /\ ucr' = [ucr EXCEPT ![p] =
               [UcrIdle EXCEPT !.pc = "done", !.op = "createSeedUser",
                               !.result = IF UsernameTaken(users, username)
                                            THEN "QueryFailedError" ELSE "ok"]]
  /\ UNCHANGED <<payments, now, tz, upd, list, csv, stats, trend, build, crt, seed, req, storeUp, agg, storage, api, addp, web, txl>>

\* The caller has its answer.
userReturn(p) ==
  /\ ucr[p].pc = "done"
  /\ ucr' = [ucr EXCEPT ![p] = UcrIdle]
  /\ UNCHANGED <<payments, now, tz, upd, list, csv, stats, trend, build, crt, seed, req, storeUp, agg, users, storage, api, addp, web, txl>>

\* The loop over the default users: each is hashed and saved, a failed save
\* is logged and the loop goes on.
RECURSIVE SaveDefaults(_, _)
SaveDefaults(table, defaults) ==
  IF defaults = <<>> THEN table
  ELSE LET d == Head(defaults)
       IN SaveDefaults(UserInserted(table, UserEntity(d.username, d.password, d.role)),
                       Tail(defaults))

\* if (userCount > 0) return, of the later seedDefaultUsers.
UsersSeeded(table) == Len(table) > 0

\* seedDefaultUsers.  The later service seeds nothing when the table has a
\* row; the earlier one creates admin and viewer each unless findOne finds
\* the name (which is what the failing INSERT of a taken name comes to).
seedDefaultUsers(table) ==
  IF build.latestUsersService /\ UsersSeeded(table) THEN table
  ELSE SaveDefaults(table, DefaultUsers)

\* ---------------------------------------------------------------- seeding
\* daysAgo = Math.floor(Math.random() * 7) is one of 0..MaxDaysAgo
MaxDaysAgo == 6

\* The sample payments seeded here: their statuses and methods.
SeedSamples == [amount : {150000}, receiver : {<<"John Doe">>},
                status : {"success", "pending"}, method : {"upi"}]

\* 'TXN001' + Date.now() ...: 'TXN', the three digit number of the sample
\* and the time.
SeedTransactionId(i, t) == <<"TXN", "00" \o ToString(i), ToString(t)>>

MutSeedCreatedAtAhead(t, daysAgo) == t + daysAgo * DayLen

\* createdAt.setDate(createdAt.getDate() - daysAgo)
SeedCreatedAt(t, daysAgo) == t - daysAgo * DayLen

\* seedDatabase, run by bootstrap before the server listens: nothing is
\* seeded when the table has rows.
MutPaymentsSeededNever(table) == FALSE

\* if (paymentCount > 0) return
PaymentsSeeded(table) == Len(table) > 0

seedDatabase ==
  /\ seed.pc = "start"
  /\ users' = seedDefaultUsers(users)
  /\ seed' = IF PaymentsSeeded(payments) THEN [seed EXCEPT !.pc = "done", !.i = 0]
                                         ELSE [seed EXCEPT !.pc = "payments", !.i = 1]
  /\ UNCHANGED <<payments, now, tz, upd, list, csv, stats, trend, build, crt, req, storeUp, agg, ucr, storage, api, addp, web, txl>>

\* One pass of the loops of seedPayments: the entity with a back-dated
\* createdAt is saved.
seedPaymentsSave(sample, daysAgo) ==
  /\ seed.pc = "payments"
  /\ LET e == sample @@ [transactionId |-> SeedTransactionId(seed.i, now)]
     IN payments' = Append(payments,
                           InsertedRow(e, <<SeedCreatedAt(now, daysAgo)>>, now))
  /\ seed' = IF seed.i = MaxSeedRows THEN [seed EXCEPT !.pc = "done", !.i = 0]
                                     ELSE [seed EXCEPT !.i = @ + 1]
  /\ UNCHANGED <<now, tz, upd, list, csv, stats, trend, build, crt, req, storeUp, agg, users, ucr, storage, api, addp, web, txl>>

\* The server is stopped and started again: bootstrap runs anew.
restart ==
  /\ seed.pc = "done"
  /\ \A p \in Procs : crt[p].pc = "idle" /\ upd[p].pc = "idle" /\ ucr[p].pc = "idle"
  /\ seed' = [SeedIdle EXCEPT !.rerun = TRUE]
  /\ UNCHANGED <<payments, now, tz, upd, list, csv, stats, trend, build, crt, req, storeUp, agg, users, ucr, storage, api, addp, web, txl>>

\* Start-up with seeding, then create calls from two callers, in either
\* variant of the entity.
CreateDtos == [amount : {0, 100}, receiver : Receivers, status : {"success"},
               method : {"upi"}]
CreateSample == [amount |-> 150000, receiver |-> <<"John Doe">>, status |-> "success",
                 method |-> "upi"]

NextCreate ==
  \/ Tick
  \/ seedDatabase
  \/ seedPaymentsSave(CreateSample, 0)
  \/ \E p \in Procs, dto \in CreateDtos :
       createRequestUpTo(p, dto, MaxSeedRows + MaxRacePayments + 1)
  \/ \E p \in Procs : createSave(p)

InitCreate == InitBuild({0}, [uniqueTransactionId : BOOLEAN, enumMethodFilter : {TRUE},
                               latestUsersService : {TRUE}])

SpecCreate == InitCreate /\ [][NextCreate]_vars

\* Start-up with seeding, restarts, and create and updateStatus calls of one
\* caller while the clock runs.
NextSeed ==
  \/ Tick
  \/ seedDatabase
  \/ \E sample \in SeedSamples, daysAgo \in {0, MaxDaysAgo} :
       seedPaymentsSave(sample, daysAgo)
  \/ restart
  \/ \E dto \in CreateDtos : createRequest("u1", dto)
  \/ createSave("u1")
  \/ seed.pc = "done" /\ \E id \in 1..MaxPayments, st \in {"failed", "pending"} :
                           updateStatusRequest("u1", id, st, FALSE)
  \/ updateStatusLoad("u1")
  \/ updateStatusSave("u1")

SpecSeed == InitUpdate /\ [][NextSeed]_vars

\* Start-up, restarts and users requests from two callers, in either variant
\* of UsersService, while payments are created.
UserDtos == [username : {"admin", "bob", "eve"}, password : {Plain("secret")},
             role : {""}]

NextUsers ==
  \/ seedDatabase
  \/ seedPaymentsSave(CreateSample, 0)
  \/ restart
  \/ \E p \in Procs, dto \in UserDtos : userCreateRequest(p, dto)
  \/ \E p \in Procs : userCreateSave(p)
  \/ \E p \in Procs : userFindAll(p)
  \/ \E p \in Procs, id \in {1, 5} : userFindOne(p, id)
  \/ createSeedUser("u1", "eve", Plain("secret"), "admin")
  \/ \E p \in Procs : userReturn(p)
  \/ createRequestUpTo("u1", CreateSample, MaxSeedRows + 1)
  \/ createSave("u1")

InitUsers == InitBuild({0}, [uniqueTransactionId : {TRUE}, enumMethodFilter : {TRUE},
                             latestUsersService : BOOLEAN])

SpecUsers == InitUsers /\ [][NextUsers]_vars

\* ------------------------------------------------ list and export requests
\* PaymentFilterDto under @Query(ValidationPipe): status is checked against
\* the three statuses in both variants of the DTO, method against
\* PaymentMethod in one variant and as any string in the other.
ValidFilterDto(f) ==
  /\ (f.status # "" => f.status \in PaymentStatus)
  /\ (f.method # "" /\ build.enumMethodFilter => f.method \in PaymentMethod)

\* The enum columns of the table: a comparison with a value outside the
\* column's enum fails the statement.
StoreAccepts(f) ==
  /\ (f.status # "" => f.status \in PaymentStatus)
  /\ (f.method # "" => f.method \in PaymentMethod)

\* What a request leaves in req.  queried: a statement was sent to the store;
\* ids: the rows its where-clause matched; data: the ids returned, in order;
\* finite: totalPages is a number (not Infinity or NaN).
Response(op, f, page, limit, outcome, queried, skip, take, ids, data, totalPages, finite) ==
  [op |-> op, filters |-> f, page |-> page, limit |-> limit, snap |-> payments,
   outcome |-> outcome, queried |-> queried, skip |-> skip, take |-> take,
   ids |-> ids, data |-> data, total |-> Cardinality(ids),
   totalPages |-> totalPages, finite |-> finite]

\* PaymentsService.findAll as called by the controller with a validated
\* filter: skip and take go to the store as computed.  The store fails a
\* negative OFFSET or LIMIT; take: 0 sets no LIMIT or LIMIT 0 (zeroTakesAll),
\* and total / 0 is Infinity or NaN.
findAllResponse(f, page, limit, ord, zeroTakesAll) ==
  LET skip == (page - 1) * limit
      ids == MatchingIds(payments, f)
  IN IF ~StoreAccepts(f) \/ skip < 0 \/ limit < 0
       THEN Response("findAll", f, page, limit, "QueryFailedError", TRUE, skip, limit,
                     {}, <<>>, 0, TRUE)
     ELSE IF limit = 0
       THEN Response("findAll", f, page, limit, "ok", TRUE, skip, limit, ids,
                     IF zeroTakesAll THEN ord ELSE <<>>, 0, FALSE)
     ELSE LET env == findAll(payments, f, page, limit, ord)
          IN Response("findAll", f, page, limit, "ok", TRUE, skip, limit, ids,
                      env.data, env.totalPages, TRUE)

\* GET /payments?page=..&limit=..: ParseIntPipe takes any integer for page
\* and for limit; the ValidationPipe refuses an invalid filter.
findAllRequest(f, page, limit) ==
  /\ req.op = "none"
  /\ \E ord \in Orderings(payments, MatchingIds(payments, f)), zeroTakesAll \in BOOLEAN :
       req' = IF ~ValidFilterDto(f)
                THEN Response("findAll", f, page, limit, "BadRequest", FALSE, 0, 0,
                              {}, <<>>, 0, TRUE)
                ELSE findAllResponse(f, page, limit, ord, zeroTakesAll)
  /\ UNCHANGED <<payments, now, tz, upd, list, csv, stats, trend, build, crt, seed, storeUp, agg, users, ucr, storage, api, addp, web, txl>>

\* GET /payments/export: the ValidationPipe, then exportToCSV's find.
exportRequest(f) ==
  /\ req.op = "none"
  /\ \E ord \in Orderings(payments, MatchingIds(payments, f)) :
       req' = IF ~ValidFilterDto(f)
                THEN Response("export", f, 1, 1, "BadRequest", FALSE, 0, 0, {}, <<>>, 0, TRUE)
              ELSE IF ~StoreAccepts(f)
                THEN Response("export", f, 1, 1, "QueryFailedError", TRUE, 0, 0, {}, <<>>,
                              0, TRUE)
              ELSE Response("export", f, 1, 1, "ok", TRUE, 0, 0, MatchingIds(payments, f),
                            ord, 1, TRUE)
  /\ UNCHANGED <<payments, now, tz, upd, list, csv, stats, trend, build, crt, seed, storeUp, agg, users, ucr, storage, api, addp, web, txl>>

\* The response leaves the server.
requestReturn ==
  /\ req.op # "none"
  /\ req' = ReqNone
  /\ UNCHANGED <<payments, now, tz, upd, list, csv, stats, trend, build, crt, seed, storeUp, agg, users, ucr, storage, api, addp, web, txl>>

\* List and export requests, one at a time, with any filter, page and limit
\* on a growing store, in either variant of the filter DTO.
RequestDtos == [amount : {100}, receiver : Receivers, status : {"success"},
                method : {"upi"}]
RequestFilters ==
  {NoFilter,
   [NoFilter EXCEPT !.status = "refunded"],
   [NoFilter EXCEPT !.method = "cash"],
   [NoFilter EXCEPT !.startDate = <<StartDay>>, !.endDate = <<StartDay>>],
   [NoFilter EXCEPT !.startDate = <<StartDay + 1>>],
   [NoFilter EXCEPT !.endDate = <<StartDay - 1>>]}

NextRequest ==
  \/ req.op = "none" /\ Tick
  \/ req.op = "none" /\ \E dto \in RequestDtos : create(dto)
  \/ \E f \in RequestFilters, page \in 0..2, limit \in -1..MaxLimit :
       findAllRequest(f, page, limit)
  \/ \E f \in RequestFilters : exportRequest(f)
  \/ requestReturn

InitRequest == InitBuild({0}, [uniqueTransactionId : {TRUE}, enumMethodFilter : BOOLEAN,
                                latestUsersService : {TRUE}])

SpecRequest == InitRequest /\ [][NextRequest]_vars

\* -------------------------------------------------------------- analytics
\* The hour of day of a time: the ticks of a day are its hours.
HourOf(t) == t % DayLen

\* peakHour when the hourly query returns no row: '12:00'
DefaultPeakHour == 12

\* The nearest integer to n / d, halves upwards (toFixed on a quotient)
RoundDiv(n, d) == (2 * n + d) \div (2 * d)

MutSuccessRateTruncated(successful, total) ==
  IF total > 0 THEN (1000 * successful) \div total ELSE 0

\* successRate of getQuickStats, in tenths of a percent: 0 without
\* transactions, else (successful / total) * 100 through toFixed(1).
SuccessRate(successful, total) ==
  IF total > 0 THEN RoundDiv(1000 * successful, total) ELSE 0

\* COUNT(*) and SUM(amount) over the rows ids
CountAndRevenue(table, ids) == [count |-> Cardinality(ids), revenue |-> SqlSum(table, ids)]

\* The groups of the hourly query: per hour with success rows, their count.
HourlyGroups(table) ==
  {[hour |-> h, count |-> Cardinality({i \in WithStatus(table, "success") :
                                          HourOf(table[i].createdAt) = h})] :
     h \in {HourOf(table[i].createdAt) : i \in WithStatus(table, "success")}}

\* orderBy('count', 'DESC').limit(1): the rows the store may return, any
\* group of the largest count, none without groups.
HourlyTop(table) ==
  {g \in HourlyGroups(table) : \A o \in HourlyGroups(table) : o.count <= g.count}

\* GET /payments/quick-stats: today and yesterday as local midnights.
getQuickStatsRequest ==
  /\ req.op = "none"
  /\ req' = [op |-> "quickStats", pc |-> "todayStats", snap |-> payments,
             today |-> LocalMidnight(LocalDay(now)),
             yesterday |-> LocalMidnight(LocalDay(now)) - DayLen,
             todayStats |-> CountAndRevenue(payments, {}),
             yesterdayStats |-> CountAndRevenue(payments, {}),
             totalTransactions |-> 0, successfulTransactions |-> 0, avg |-> <<>>,
             successRate |-> 0, peakHour |-> <<>>]
  /\ UNCHANGED <<payments, now, tz, upd, list, csv, stats, trend, build, crt, seed, storeUp, agg, users, ucr, storage, api, addp, web, txl>>

\* The queries of getQuickStats, one per step; after the last one the
\* response is computed.
getQuickStatsQuery ==
  /\ req.op = "quickStats"
  /\ LET success == WithStatus(payments, "success")
         at(pc, field, value, next) ==
           /\ req.pc = pc
           /\ req' = [req EXCEPT ![field] = value, !.pc = next]
     IN \/ at("todayStats", "todayStats",
              CountAndRevenue(payments, {i \in success : payments[i].createdAt >= req.today}),
              "yesterdayStats")
        \/ at("yesterdayStats", "yesterdayStats",
              CountAndRevenue(payments, {i \in success :
                                           /\ payments[i].createdAt >= req.yesterday
                                           /\ payments[i].createdAt < req.today}),
              "totalTransactions")
        \/ at("totalTransactions", "totalTransactions", Len(payments),
              "successfulTransactions")
        \/ at("successfulTransactions", "successfulTransactions", Cardinality(success),
              "avgAmount")
        \/ at("avgAmount", "avg",
              IF success = {} THEN <<>>
              ELSE <<SumAmount(payments, success), Cardinality(success)>>,
              "hourlyStats")
        \/ /\ req.pc = "hourlyStats"
           /\ \E top \in IF HourlyTop(payments) = {} THEN {<<>>}
                         ELSE {<<g>> : g \in HourlyTop(payments)} :
                req' = [req EXCEPT
                          !.pc = "done",
                          !.successRate = SuccessRate(req.successfulTransactions,
                                                      req.totalTransactions),
                          !.peakHour = IF top = <<>> THEN <<DefaultPeakHour>>
                                       ELSE <<top[1].hour>>]
  /\ UNCHANGED <<payments, now, tz, upd, list, csv, stats, trend, build, crt, seed, storeUp, agg, users, ucr, storage, api, addp, web, txl>>

\* The entries of getSuccessRateTrend for the days first..last: one per day
\* that has rows created from start on, in date order, its successRate in
\* hundredths of a percent (toFixed(2)).
RECURSIVE RateEntries(_, _, _, _)
RateEntries(table, start, first, last) ==
  IF first > last THEN <<>>
  ELSE LET rows == {i \in 1..Len(table) : /\ table[i].createdAt >= start
                                          /\ UtcDay(table[i].createdAt) = first}
           successful == Cardinality(rows \cap WithStatus(table, "success"))
           rest == RateEntries(table, start, first + 1, last)
       IN IF rows = {} THEN rest
          ELSE <<[date |-> first, total |-> Cardinality(rows), successful |-> successful,
                  successRate |-> RoundDiv(10000 * successful, Cardinality(rows))]>>
               \o rest

\* Rows are never created ahead of the clock: the last day with rows is today
\* at the latest.
SuccessRateTrend(table, t, days) ==
  RateEntries(table, t - days * DayLen, UtcDay(t - days * DayLen), UtcDay(t))

\* GET /payments/analytics/success-rate-trend?days=..: one query.
getSuccessRateTrend(days) ==
  /\ req.op = "none"
  /\ req' = [op |-> "successRateTrend", pc |-> "done", snap |-> payments, days |-> days,
             startDate |-> now - days * DayLen, at |-> now,
             result |-> SuccessRateTrend(payments, now, days)]
  /\ UNCHANGED <<payments, now, tz, upd, list, csv, stats, trend, build, crt, seed, storeUp, agg, users, ucr, storage, api, addp, web, txl>>

\* The analytics response leaves the server.
analyticsReturn ==
  /\ req.op \in {"quickStats", "successRateTrend"}
  /\ req.pc = "done"
  /\ req' = ReqNone
  /\ UNCHANGED <<payments, now, tz, upd, list, csv, stats, trend, build, crt, seed, storeUp, agg, users, ucr, storage, api, addp, web, txl>>

\* Analytics requests, one at a time, while payments are created and the
\* clock runs.
AnalyticsDtos == [amount : {100}, receiver : Receivers, status : {"success", "failed"},
                  method : {"upi"}]

NextAnalytics ==
  \/ Tick
  \/ \E dto \in AnalyticsDtos : createUpTo(dto, MaxPayments + 1)
  \/ getQuickStatsRequest
  \/ getQuickStatsQuery
  \/ \E days \in {1, MaxDays} : getSuccessRateTrend(days)
  \/ analyticsReturn

SpecAnalytics == InitUpdate /\ [][NextAnalytics]_vars

\* ------------------------------------------- aggregation under an outage
\* The aggregation endpoints requested here and the number of queries each
\* runs before it answers (getStats: the summary and the breakdowns).
AggOps == {"stats", "quickStats", "successRateTrend"}
AggQueries(op) == IF op = "stats" THEN 2 ELSE 1

\* What the endpoints answer when every query ran.
AggBody(op) ==
  CASE op = "stats" ->
         [totalRevenue |-> TotalRevenue(payments),
          failedTransactions |-> FailedTransactions(payments),
          paymentMethods |-> PaymentMethodsBreakdown(payments),
          statusBreakdown |-> StatusBreakdown(payments)]
    [] op = "quickStats" ->
         [totalTransactions |-> Len(payments),
          successRate |-> SuccessRate(Cardinality(WithStatus(payments, "success")),
                                      Len(payments))]
    [] op = "successRateTrend" -> SuccessRateTrend(payments, now, 1)

\* The object ApiService.getQuickStats returns from its catch block
\* (successRate 94.2 in tenths).
QuickStatsMock == [totalTransactions |-> 1245, successRate |-> 942]

\* The database stops answering, and answers again.
storeFails ==
  /\ storeUp
  /\ storeUp' = FALSE
  /\ UNCHANGED <<payments, now, tz, upd, list, csv, stats, trend, build, crt, seed, req, agg, users, ucr, storage, api, addp, web, txl>>

storeRecovers ==
  /\ ~storeUp
  /\ storeUp' = TRUE
  /\ UNCHANGED <<payments, now, tz, upd, list, csv, stats, trend, build, crt, seed, req, agg, users, ucr, storage, api, addp, web, txl>>

\* An aggregation is requested, of the endpoint itself (via = "server") or
\* through the ApiService method of the client (via = "client").
aggRequest(op, via) ==
  /\ agg.pc = "idle"
  /\ agg' = [AggIdle EXCEPT !.pc = "query", !.op = op, !.via = via,
                            !.left = AggQueries(op)]
  /\ UNCHANGED <<payments, now, tz, upd, list, csv, stats, trend, build, crt, seed, req, storeUp, users, ucr, storage, api, addp, web, txl>>

\* One query of the service method.  The methods have no try/catch: a query
\* the store does not answer rejects the call and the endpoint answers 500;
\* after the last query the endpoint answers 200 with the body.
aggQuery ==
  /\ agg.pc = "query"
  /\ agg' = IF ~storeUp
              THEN [agg EXCEPT !.pc = "answered", !.failed = TRUE, !.status = 500]
            ELSE IF agg.left > 1
              THEN [agg EXCEPT !.left = @ - 1]
            ELSE [agg EXCEPT !.pc = "answered", !.left = 0, !.status = 200,
                             !.body = <<AggBody(agg.op)>>]
  /\ UNCHANGED <<payments, now, tz, upd, list, csv, stats, trend, build, crt, seed, req, storeUp, users, ucr, storage, api, addp, web, txl>>

\* What the caller is handed.  The endpoint hands its answer on.
\* ApiService.getPaymentStats and getSuccessRateTrend return response.data
\* (the fields kept here are passed through) and rethrow an error;
\* getQuickStats returns response.data and, on any error, the mock object.
ApiResult(a) ==
  IF a.status = 200 THEN [a EXCEPT !.pc = "done", !.result = "value", !.value = a.body]
  ELSE IF a.via = "client" /\ a.op = "quickStats"
    THEN [a EXCEPT !.pc = "done", !.result = "value", !.value = <<QuickStatsMock>>]
  ELSE [a EXCEPT !.pc = "done", !.result = "error"]

aggAnswer ==
  /\ agg.pc = "answered"
  /\ agg' = ApiResult(agg)
  /\ UNCHANGED <<payments, now, tz, upd, list, csv, stats, trend, build, crt, seed, req, storeUp, users, ucr, storage, api, addp, web, txl>>

\* The caller has its result.
aggReturn ==
  /\ agg.pc = "done"
  /\ agg' = AggIdle
  /\ UNCHANGED <<payments, now, tz, upd, list, csv, stats, trend, build, crt, seed, req, storeUp, users, ucr, storage, api, addp, web, txl>>

\* Aggregation requests, one at a time, while the store comes and goes.
OutageDtos == [amount : {100}, receiver : Receivers, status : {"success", "failed"},
               method : {"upi"}]

NextOutage ==
  \/ storeUp /\ agg.pc = "idle" /\ \E dto \in OutageDtos : createUpTo(dto, MaxPayments)
  \/ storeFails
  \/ storeRecovers
  \/ \E op \in AggOps, via \in {"server", "client"} : aggRequest(op, via)
  \/ aggQuery
  \/ aggAnswer
  \/ aggReturn

SpecOutage == InitUpdate /\ [][NextOutage]_vars

\* ------------------------------------------------ ApiService: the token
\* How many requests of the client are in flight together.
MaxInFlight == 2

\* The tokens POST /auth/login answers with.
Tokens == {"t1", "t2"}

\* localStorage.setItem('token', token) and localStorage.removeItem('token'):
\* where the platform has no localStorage the call throws and the catch
\* block logs it.
TokenStored(st, token) == IF st.ok THEN [st EXCEPT !.token = <<token>>] ELSE st

MutTokenRemovedNot(st) == st

TokenRemoved(st) == IF st.ok THEN [st EXCEPT !.token = <<>>] ELSE st

\* The request interceptor: Authorization: Bearer <authToken> when there is
\* a token, no such header otherwise.  auth is the token of the header.
apiRequest(kind) ==
  /\ Len(api.pending) < MaxInFlight
  /\ api' = [api EXCEPT !.pending = Append(@, [kind |-> kind, auth |-> api.authToken])]
  /\ UNCHANGED <<payments, now, tz, upd, list, csv, stats, trend, build, crt, seed, req, storeUp, agg, users, ucr, storage, addp, web, txl>>

\* pending without its k-th request
Without(q, k) == SubSeq(q, 1, k - 1) \o SubSeq(q, k + 1, Len(q))

\* A response with status 401 comes in, for whichever request: the response
\* interceptor calls clearToken and rejects.
apiUnauthorized(k) ==
  /\ k \in 1..Len(api.pending)
  /\ storage' = TokenRemoved(storage)
  /\ api' = [api EXCEPT !.pending = Without(@, k), !.authToken = <<>>,
                        !.last = "cleared", !.lastToken = <<>>]
  /\ UNCHANGED <<payments, now, tz, upd, list, csv, stats, trend, build, crt, seed, req, storeUp, agg, users, ucr, addp, web, txl>>

\* A response other than 401 to a request that is no login, or an error
\* without a response: handed to the caller, the token is not touched.
apiOther(k) ==
  /\ k \in 1..Len(api.pending)
  /\ api.pending[k].kind # "login"
  /\ api' = [api EXCEPT !.pending = Without(@, k)]
  /\ UNCHANGED <<payments, now, tz, upd, list, csv, stats, trend, build, crt, seed, req, storeUp, agg, users, ucr, storage, addp, web, txl>>

\* login: the response to POST /auth/login.  With a token in it (token =
\* <<t>>) saveTokenToStorage stores and keeps it; without one (<<>>) login
\* throws, as it does on an error other than 401.
loginResponse(k, token) ==
  /\ k \in 1..Len(api.pending)
  /\ api.pending[k].kind = "login"
  /\ IF token = <<>>
       THEN /\ api' = [api EXCEPT !.pending = Without(@, k)]
            /\ storage' = storage
       ELSE /\ storage' = TokenStored(storage, token[1])
            /\ api' = [api EXCEPT !.pending = Without(@, k), !.authToken = token,
                                  !.last = "login", !.lastToken = token]
  /\ UNCHANGED <<payments, now, tz, upd, list, csv, stats, trend, build, crt, seed, req, storeUp, agg, users, ucr, addp, web, txl>>

\* logout: clearToken.
logout ==
  /\ storage' = TokenRemoved(storage)
  /\ api' = [api EXCEPT !.authToken = <<>>, !.last = "cleared", !.lastToken = <<>>]
  /\ UNCHANGED <<payments, now, tz, upd, list, csv, stats, trend, build, crt, seed, req, storeUp, agg, users, ucr, addp, web, txl>>

\* The app is started again: a new ApiService, whose constructor takes the
\* stored token (loadTokenFromStorage); getItem throws where there is no
\* localStorage and the token stays null.
apiReload ==
  /\ api' = [ApiFresh EXCEPT !.authToken = IF storage.ok THEN storage.token ELSE <<>>]
  /\ UNCHANGED <<payments, now, tz, upd, list, csv, stats, trend, build, crt, seed, req, storeUp, agg, users, ucr, storage, addp, web, txl>>

NextToken ==
  \/ \E kind \in {"get", "login"} : apiRequest(kind)
  \/ \E k \in 1..MaxInFlight : apiUnauthorized(k)
  \/ \E k \in 1..MaxInFlight : apiOther(k)
  \/ \E k \in 1..MaxInFlight, token \in {<<>>} \cup {<<t>> : t \in Tokens} :
       loginResponse(k, token)
  \/ logout
  \/ apiReload

InitToken == InitServer({0}, {LatestBuild}) /\ InitClient(BOOLEAN, {"fallback"})

SpecToken == InitToken /\ [][NextToken]_vars

\* ------------------------------------------------------- AddPaymentScreen
\* How many transactions the local list holds.
MaxLocal == 2

\* Text typed into a field: a sequence of characters.
Digits == <<"0", "1", "2", "3", "4", "5", "6", "7", "8", "9">>
IsDigit(c) == \E d \in 1..10 : Digits[d] = c
DigitValue(c) == (CHOOSE d \in 1..10 : Digits[d] = c) - 1

\* String.prototype.trim
RECURSIVE TrimStart(_)
TrimStart(s) == IF s # <<>> /\ Head(s) = " " THEN TrimStart(Tail(s)) ELSE s
RECURSIVE TrimEnd(_)
TrimEnd(s) ==
  IF s # <<>> /\ s[Len(s)] = " " THEN TrimEnd(SubSeq(s, 1, Len(s) - 1)) ELSE s
Trim(s) == TrimEnd(TrimStart(s))

\* The number of digits s begins with, and their value.
RECURSIVE DigitsLen(_)
DigitsLen(s) == IF s # <<>> /\ IsDigit(Head(s)) THEN 1 + DigitsLen(Tail(s)) ELSE 0
RECURSIVE DigitsValue(_)
DigitsValue(s) ==
  IF s = <<>> THEN 0 ELSE 10 * DigitsValue(SubSeq(s, 1, Len(s) - 1)) + DigitValue(s[Len(s)])

\* parseFloat(text): leading white space is skipped, then a sign, digits and
\* a fraction are read as far as they go and whatever follows is ignored;
\* NaN (<<>> here) when no digit was read.  read: the characters taken;
\* value: the number in hundredths (two decimals kept; exponents and
\* Infinity are not among the inputs).
ParseFloatOf(text) ==
  LET t == TrimStart(text)
      signed == t # <<>> /\ Head(t) \in {"-", "+"}
      u == IF signed THEN Tail(t) ELSE t
      n == DigitsLen(u)
      rest == SubSeq(u, n + 1, Len(u))
      point == rest # <<>> /\ Head(rest) = "."
      m == IF point THEN DigitsLen(Tail(rest)) ELSE 0
      frac == IF m = 0 THEN 0
              ELSE IF m = 1 THEN 10 * DigitValue(rest[2])
              ELSE 10 * DigitValue(rest[2]) + DigitValue(rest[3])
      magnitude == 100 * DigitsValue(SubSeq(u, 1, n)) + frac
  IN [nan |-> n + m = 0,
      value |-> IF signed /\ Head(t) = "-" THEN 0 - magnitude ELSE magnitude,
      read |-> (Len(text) - Len(t)) + (IF signed THEN 1 ELSE 0) + n
               + (IF point /\ (n + m > 0) THEN 1 + m ELSE 0)]

parseFloat(text) == IF ParseFloatOf(text).nan THEN <<>> ELSE <<ParseFloatOf(text).value>>

\* The validation of handleSubmit: amount and receiver not blank, and
\* parseFloat(amount) neither NaN nor <= 0.
Validates(form) ==
  /\ Trim(form.amount) # <<>>
  /\ Trim(form.receiver) # <<>>
  /\ parseFloat(form.amount) # <<>>
  /\ parseFloat(form.amount)[1] > 0

\* paymentData of handleSubmit (status and method are the picker's values).
PaymentData(form) ==
  [amount |-> parseFloat(form.amount)[1], receiver |-> Trim(form.receiver)]

\* updateFormData: the user types.
updateFormData(amount, receiver) ==
  /\ addp' = [addp EXCEPT !.formData = [amount |-> amount, receiver |-> receiver]]
  /\ UNCHANGED <<payments, now, tz, upd, list, csv, stats, trend, build, crt, seed, req, storeUp, agg, users, ucr, storage, api, web, txl>>

\* handleSubmit up to the await of ApiService.createPayment.  The submit
\* control is disabled while loading; setLoading(true) is in effect before
\* the next press is handled.
handleSubmit ==
  /\ ~addp.loading
  /\ Len(storage.transactions) + Len(addp.active) < MaxLocal
  /\ IF Validates(addp.formData)
       THEN addp' = [addp EXCEPT !.loading = TRUE, !.alert = "", !.path = "",
                                 !.active = Append(@, PaymentData(addp.formData))]
       ELSE addp' = [addp EXCEPT !.alert = "Error", !.path = "invalid"]
  /\ UNCHANGED <<payments, now, tz, upd, list, csv, stats, trend, build, crt, seed, req, storeUp, agg, users, ucr, storage, api, web, txl>>

\* newTransaction of the fallback: id: Date.now()
NewTransaction(data, t) == [id |-> t, amount |-> data.amount, receiver |-> data.receiver]

\* existingTransactions.unshift(newTransaction) and setItem; where there is
\* no localStorage the catch block logs it.
LocalUnshift(st, tx) ==
  IF st.ok THEN [st EXCEPT !.transactions = <<tx>> \o @] ELSE st

MutLoadingAfterRejected(resolved) == ~resolved

\* finally { setLoading(false) }
LoadingAfter(resolved) == FALSE

\* The rest of handleSubmit once createPayment has settled: the Success
\* alert when it resolved; when it was rejected the fallback variant stores
\* the payment locally and alerts Success, the earlier variant alerts the
\* error; finally setLoading(false).
createPaymentSettled(k, resolved) ==
  /\ k \in 1..Len(addp.active)
  /\ storage' = IF ~resolved /\ addp.variant = "fallback"
                  THEN LocalUnshift(storage, NewTransaction(addp.active[k], now))
                  ELSE storage
  /\ addp' = [addp EXCEPT !.active = Without(@, k), !.loading = LoadingAfter(resolved),
                          !.alert = IF resolved \/ addp.variant = "fallback"
                                      THEN "Success" ELSE "Error",
                          !.path = IF resolved THEN "api"
                                   ELSE IF addp.variant = "fallback" THEN "local"
                                   ELSE "error"]
  /\ UNCHANGED <<payments, now, tz, upd, list, csv, stats, trend, build, crt, seed, req, storeUp, agg, users, ucr, api, web, txl>>

\* The form is filled in and submitted, again and again, while the clock
\* runs.
AmountTexts == {<<>>, <<" ">>, <<"x">>, <<"0">>, <<"-", "5">>, <<"1", "2">>,
                <<"1", "2", "x">>, <<"1", ".", "5">>}
ReceiverTexts == {<<>>, <<" ">>, <<"A", " ">>}

NextAddPayment ==
  \/ Tick
  \/ \E amount \in AmountTexts, receiver \in ReceiverTexts : updateFormData(amount, receiver)
  \/ handleSubmit
  \/ \E k \in 1..MaxLocal, resolved \in BOOLEAN : createPaymentSettled(k, resolved)

InitAddPayment ==
  InitServer({0}, {LatestBuild}) /\ InitClient(BOOLEAN, {"fallback", "plain"})

SpecAddPayment == InitAddPayment /\ [][NextAddPayment]_vars

\* ------------------------------------- loadTransactions: local and server
\* combinedTransactions.slice(0, 5) of the dashboard
TopShown == 5

\* Whether list q has an entry with this id.
HasId(q, id) == \E i \in 1..Len(q) : q[i].id = id

\* apiTransactions.forEach: the server entries whose id no local entry has
\* are pushed, in their order.
RECURSIVE PushMissing(_, _, _)
PushMissing(combined, localTransactions, apiTransactions) ==
  IF apiTransactions = <<>> THEN combined
  ELSE LET t == Head(apiTransactions)
       IN PushMissing(IF HasId(localTransactions, t.id) THEN combined
                      ELSE Append(combined, t),
                      localTransactions, Tail(apiTransactions))

\* const combinedTransactions = [...localTransactions]; forEach ...
Combined(localTransactions, apiTransactions) ==
  PushMissing(localTransactions, localTransactions, apiTransactions)

\* .filter((transaction, index, arr) =>
\*    arr.findIndex(t => t.id === transaction.id) === index)
RECURSIVE FirstOfEachId(_, _)
FirstOfEachId(kept, q) ==
  IF q = <<>> THEN kept
  ELSE FirstOfEachId(IF HasId(kept, Head(q).id) THEN kept ELSE Append(kept, Head(q)),
                     Tail(q))

\* A transaction as the server lists it, and the first of the sample
\* transactions of the screens.
ServerTransaction(id) == [id |-> id, amount |-> 100, receiver |-> <<"S">>]
sampleTransactions == <<ServerTransaction(1), ServerTransaction(2)>>

\* loadTransactions up to the await of ApiService.getTransactions: the local
\* list is read (none where getItem throws).
loadTransactions ==
  /\ web.pc = "idle"
  /\ web' = [WebIdle EXCEPT !.pc = "api",
                            !.local = IF storage.ok THEN storage.transactions ELSE <<>>]
  /\ UNCHANGED <<payments, now, tz, upd, list, csv, stats, trend, build, crt, seed, req, storeUp, agg, users, ucr, storage, api, addp, txl>>

\* getTransactions resolved with response.data = data: the combined list is
\* set (the dashboard shows its first five).
loadTransactionsCombine(data) ==
  /\ web.pc = "api"
  /\ web' = [web EXCEPT !.pc = "idle", !.server = data, !.path = "api",
                        !.all = Combined(web.local, data),
                        !.recent = SubSeq(Combined(web.local, data), 1,
                                          Min(TopShown, Len(Combined(web.local, data))))]
  /\ UNCHANGED <<payments, now, tz, upd, list, csv, stats, trend, build, crt, seed, req, storeUp, agg, users, ucr, storage, api, addp, txl>>

\* getTransactions rejected: local and sample transactions, the first entry
\* of each id.
loadTransactionsFallback ==
  /\ web.pc = "api"
  /\ web' = [web EXCEPT !.pc = "idle", !.path = "fallback",
                        !.all = FirstOfEachId(<<>>, web.local \o sampleTransactions),
                        !.recent = SubSeq(FirstOfEachId(<<>>, web.local \o sampleTransactions),
                                          1, Min(TopShown,
                                                 Len(FirstOfEachId(<<>>, web.local \o sampleTransactions))))]
  /\ UNCHANGED <<payments, now, tz, upd, list, csv, stats, trend, build, crt, seed, req, storeUp, agg, users, ucr, storage, api, addp, txl>>

\* Payments fall back to the local list while the clock runs, and the lists
\* are loaded; the server answers with rows whose ids may be any numbers.
ServerData ==
  {<<>>, <<ServerTransaction(1)>>, <<ServerTransaction(StartDay * DayLen)>>,
   <<ServerTransaction(1), ServerTransaction(StartDay * DayLen)>>,
   <<ServerTransaction(StartDay * DayLen), ServerTransaction(1)>>}

NextMerge ==
  \/ Tick
  \/ \E amount \in {<<"1", "2">>, <<"1", ".", "5">>} : updateFormData(amount, <<"A", " ">>)
  \/ handleSubmit
  \/ \E k \in 1..MaxLocal, resolved \in BOOLEAN : createPaymentSettled(k, resolved)
  \/ loadTransactions
  \/ \E data \in ServerData : loadTransactionsCombine(data)
  \/ loadTransactionsFallback

InitMerge == InitServer({0}, {LatestBuild}) /\ InitClient(BOOLEAN, {"fallback"})

SpecMerge == InitMerge /\ [][NextMerge]_vars

\* --------------------------------- the mobile TransactionListScreen
MaxListRequests == 4
MaxPages == 2

\* The values of the status filter used: none and one status.
FilterValues == {"", "success"}

\* response.totalPages for a filter: the unfiltered list has MaxPages pages,
\* the filtered one a page less.
TotalPages(filters) == IF filters = "" THEN MaxPages ELSE MaxPages - 1

\* response.data of a request: the page asked, empty past the last page.
ResponseData(request) ==
  IF request.page <= TotalPages(request.filters) THEN <<request>> ELSE <<>>

\* loadTransactions(pageNum, filterParams) up to the await of getPayments.
GetPaymentsCalled(screen, pageNum, filterParams) ==
  [screen EXCEPT !.pending = Append(@, [page |-> pageNum, filters |-> filterParams]),
                 !.sent = @ + 1]

\* onValueChange of the status picker: setFilters.
setFilters(value) ==
  /\ txl.filters # value
  /\ txl' = [txl EXCEPT !.filters = value]
  /\ UNCHANGED <<payments, now, tz, upd, list, csv, stats, trend, build, crt, seed, req, storeUp, agg, users, ucr, storage, api, addp, web>>

onRefresh ==
  /\ txl.sent < MaxListRequests
  /\ txl' = GetPaymentsCalled([txl EXCEPT !.refreshing = TRUE, !.page = 1,
                                          !.hasMore = TRUE],
                              1, txl.filters)
  /\ UNCHANGED <<payments, now, tz, upd, list, csv, stats, trend, build, crt, seed, req, storeUp, agg, users, ucr, storage, api, addp, web>>

loadMore ==
  /\ txl.sent < MaxListRequests
  /\ ~txl.loading /\ txl.hasMore
  /\ txl' = GetPaymentsCalled([txl EXCEPT !.loading = TRUE], txl.page + 1, txl.filters)
  /\ UNCHANGED <<payments, now, tz, upd, list, csv, stats, trend, build, crt, seed, req, storeUp, agg, users, ucr, storage, api, addp, web>>

applyFilters ==
  /\ txl.sent < MaxListRequests
  /\ txl' = GetPaymentsCalled([txl EXCEPT !.loading = TRUE, !.page = 1, !.hasMore = TRUE,
                                          !.applied = TRUE, !.current = txl.filters,
                                          !.rejected = FALSE],
                              1, txl.filters)
  /\ UNCHANGED <<payments, now, tz, upd, list, csv, stats, trend, build, crt, seed, req, storeUp, agg, users, ucr, storage, api, addp, web>>

clearFilters ==
  /\ txl.sent < MaxListRequests
  /\ txl' = GetPaymentsCalled([txl EXCEPT !.filters = "", !.loading = TRUE, !.page = 1,
                                          !.hasMore = TRUE, !.applied = TRUE,
                                          !.current = "", !.rejected = FALSE],
                              1, "")
  /\ UNCHANGED <<payments, now, tz, upd, list, csv, stats, trend, build, crt, seed, req, storeUp, agg, users, ucr, storage, api, addp, web>>

\* The k-th pending getPayments call settles, whichever was made first:
\* resolved, page 1 replaces the list and any other page is appended, then
\* setHasMore and setPage(pageNum); rejected, an alert; in both cases the
\* finally block.
getPaymentsSettled(k, resolved) ==
  /\ k \in 1..Len(txl.pending)
  /\ LET request == txl.pending[k]
         after == [txl EXCEPT !.pending = Without(@, k), !.loading = FALSE,
                              !.refreshing = FALSE]
     IN txl' = IF resolved
               THEN [after EXCEPT
                       !.transactions = IF request.page = 1 THEN ResponseData(request)
                                        ELSE @ \o ResponseData(request),
                       !.hasMore = request.page < TotalPages(request.filters),
                       !.page = request.page]
               ELSE [after EXCEPT !.rejected = TRUE]
  /\ UNCHANGED <<payments, now, tz, upd, list, csv, stats, trend, build, crt, seed, req, storeUp, agg, users, ucr, storage, api, addp, web>>

NextTxList ==
  \/ \E value \in FilterValues : setFilters(value)
  \/ onRefresh
  \/ loadMore
  \/ applyFilters
  \/ clearFilters
  \/ \E k \in 1..MaxListRequests, resolved \in BOOLEAN : getPaymentsSettled(k, resolved)

InitTxList == InitServer({0}, {LatestBuild}) /\ InitClient({TRUE}, {"fallback"})

SpecTxList == InitTxList /\ [][NextTxList]_vars

\* ------------------------------------------------------------------ C1
RECURSIVE SeqToSet(_)
SeqToSet(q) == IF q = <<>> THEN {} ELSE {Head(q)} \cup SeqToSet(Tail(q))

\* C1: when a client has fetched pages 1, 2, ... of one filter and page size
\* from an unchanged store, every envelope reports the count of the matching
\* rows and totalPages = ceil(total/limit); the pages up to totalPages are
\* pairwise disjoint, full except possibly the last, and together hold exactly
\* the matching rows; a page beyond totalPages is empty with the same total.
C1_PagesPartitionMatches ==
  LET r == list.resp
      n == Len(r)
      ids == MatchingIds(list.snap, list.filters)
      tp == CeilDiv(Cardinality(ids), list.limit)
  IN (list.active /\ \A k \in 1..n : r[k].fresh) =>
       /\ \A k \in 1..n :
            /\ r[k].env.total = Cardinality(ids)
            /\ r[k].env.totalPages = tp
            /\ k < tp => Len(r[k].env.data) = list.limit
            /\ k = tp => Len(r[k].env.data) \in 1..list.limit
            /\ k > tp => r[k].env.data = <<>>
            /\ Cardinality(SeqToSet(r[k].env.data)) = Len(r[k].env.data)
       /\ \A j, k \in 1..n :
            j # k => SeqToSet(r[j].env.data) \cap SeqToSet(r[k].env.data) = {}
       /\ n >= tp => UNION {SeqToSet(r[k].env.data) : k \in 1..n} = ids

\* ------------------------------------------------------------------ C3
\* The lines of a text: the pieces between the "\n" pieces.
RECURSIVE SplitLines(_)
SplitLines(text) ==
  IF \A k \in 1..Len(text) : text[k] # "\n" THEN <<text>>
  ELSE LET k == CHOOSE i \in 1..Len(text) :
                  text[i] = "\n" /\ \A j \in 1..(i - 1) : text[j] # "\n"
       IN <<SubSeq(text, 1, k - 1)>> \o SplitLines(SubSeq(text, k + 1, Len(text)))

\* The data rows of a CSV text: its lines after the first, without the empty
\* line a final line break leaves.
DataRows(text) ==
  LET rest == Tail(SplitLines(text))
  IN IF rest # <<>> /\ rest[Len(rest)] = <<>> THEN SubSeq(rest, 1, Len(rest) - 1) ELSE rest

\* C3: the export of a filter is the header row and then one data row per
\* row findAll counts in total for that filter on the same store, in a
\* createdAt-descending order; with no matching row it is the header only.
C3_ExportRowsMatchTotal ==
  csv.done =>
    LET ids == MatchingIds(csv.snap, csv.filters)
        rows == DataRows(csv.text)
    IN /\ Head(SplitLines(csv.text)) = Header
       /\ \A ord \in Orderings(csv.snap, ids) :
            Len(rows) = findAll(csv.snap, csv.filters, 1, 1, ord).total
       /\ \E ord \in Orderings(csv.snap, ids) :
            \A k \in 1..Len(rows) : k <= Len(ord) /\ rows[k] = CsvRow(csv.snap, ord[k])
       /\ ids = {} => rows = <<>>

\* ------------------------------------------------------------------ C2
\* C2: in every reachable store state the id sets selected by status=success,
\* status=failed and status=pending are pairwise disjoint and their union is
\* the id set of the unfiltered query.
ByStatus(s) == MatchingIds(payments, [NoFilter EXCEPT !.status = s])

C2_StatusFiltersPartition ==
  /\ \A s, t \in PaymentStatus : s # t => ByStatus(s) \cap ByStatus(t) = {}
  /\ UNION {ByStatus(s) : s \in PaymentStatus} = MatchingIds(payments, NoFilter)
  /\ MatchingIds(payments, NoFilter) = Ids

\* A store of two rows of different status, one of them set by updateStatus.
C2_Witness ==
  \E i, j \in Ids :
    /\ payments[i].status = "failed"
    /\ payments[i].updatedAt > payments[i].createdAt
    /\ payments[j].status # "failed"

\* ------------------------------------------------------------------ C4
Failures == {"BadRequest", "NotFound", "InvalidStatus"}

\* C4: an updateStatus call on an id that is not in the store ends NotFound,
\* one with a status outside the enumeration ends BadRequest (at the pipe) or
\* InvalidStatus (in the service) and never reaches the save; the step that
\* fails leaves the payments table as it was.
C4_FailedUpdateLeavesStore ==
  [][\A p \in Procs :
       /\ (upd[p].pc = "findOne" /\ upd'[p] # upd[p] /\ upd[p].id \notin Ids) =>
            (upd'[p].pc = "idle" /\ upd'[p].result = "NotFound")
       /\ (upd[p].pc = "findOne" /\ upd'[p] # upd[p] /\ upd[p].id \in Ids
              /\ upd[p].status \notin PaymentStatus) =>
            (upd'[p].pc = "idle" /\ upd'[p].result = "InvalidStatus")
       /\ (upd'[p] # upd[p] /\ upd'[p].result \in Failures) => payments' = payments
       /\ (upd'[p].pc = "save" =>
            (upd'[p].status \in PaymentStatus /\ upd'[p].id \in 1..Len(payments')))
    ]_vars

\* One call has ended NotFound and another was refused for its status, with
\* rows in the store.
C4_Witness ==
  /\ Len(payments) > 0
  /\ \E p, q \in Procs :
       upd[p].result = "NotFound" /\ upd[q].result \in {"BadRequest", "InvalidStatus"}

\* ------------------------------------------------------------------ C5
\* C5: a call for an existing payment and a status of the enumeration passes
\* the checks whatever the row's current status, takes the current time as
\* updatedAt, and its save succeeds and stores the target status and that
\* time, which is not before the updatedAt the call loaded.
C5_AnyTransitionAccepted ==
  [][\A p \in Procs :
       /\ (upd[p].pc = "findOne" /\ upd'[p] # upd[p] /\ upd[p].id \in Ids
              /\ upd[p].status \in PaymentStatus) =>
            /\ upd'[p].pc = "save"
            /\ upd'[p].entity[1].status = upd[p].status
            /\ upd'[p].entity[1].updatedAt = now
            /\ upd'[p].entity[1].updatedAt >= payments[upd[p].id].updatedAt
       /\ (upd[p].pc = "save" /\ upd'[p] # upd[p]) =>
            /\ upd'[p].result = "ok"
            /\ payments'[upd[p].id].status = upd[p].status
            /\ payments'[upd[p].id].updatedAt = upd[p].entity[1].updatedAt
    ]_vars

\* A call that targets the status the row already has is past the checks,
\* with a later updatedAt to store.
C5_Witness ==
  \E p \in Procs :
    /\ upd[p].pc = "save"
    /\ payments[upd[p].id].status = upd[p].status
    /\ upd[p].entity[1].updatedAt > payments[upd[p].id].updatedAt

\* ------------------------------------------------------------------ C6
\* C6: with updateStatus calls interleaved between their load and their save,
\* every save succeeds, and a row's status changes only in the step of a save
\* on that row and then to that save's target: the stored status is always
\* the target of the save that ran last.
C6_LastWriteWins ==
  [][/\ \A p \in Procs :
          (upd[p].pc = "save" /\ upd'[p] # upd[p]) =>
            (upd'[p].result = "ok" /\ payments'[upd[p].id].status = upd[p].status)
     /\ \A i \in Ids :
          payments'[i].status # payments[i].status =>
            \E p \in Procs :
              /\ upd[p].pc = "save" /\ upd[p].id = i /\ upd'[p].pc = "idle"
              /\ payments'[i].status = upd[p].status
    ]_vars

\* A call still holds the entity it loaded while a later call's save on the
\* same row, with another target, is already stored.
C6_Witness ==
  \E p \in Procs :
    /\ upd[p].pc = "save"
    /\ payments[upd[p].id].updatedAt > upd[p].entity[1].updatedAt
    /\ payments[upd[p].id].status # upd[p].status

\* ------------------------------------------------------------------ C7
RECURSIVE SumCount(_)
SumCount(groups) ==
  IF groups = {} THEN 0
  ELSE LET g == CHOOSE x \in groups : TRUE
       IN g.count + SumCount(groups \ {g})

\* The count of the group of status st in a status breakdown, 0 without one.
GroupCount(groups, st) == SumCount({g \in groups : g.status = st})

\* C7: in every stats response the counts of statusBreakdown and of
\* paymentMethods have the same sum, and failedTransactions is the count of
\* the failed group of statusBreakdown, also when payments are created while
\* the request is in flight.
C7_StatsResponseIsOneSnapshot ==
  stats.pc = "done" =>
    /\ SumCount(stats.statusBreakdown) = SumCount(stats.paymentMethods)
    /\ stats.failedTransactions = GroupCount(stats.statusBreakdown, "failed")

\* ------------------------------------------------------------------ C8
\* C8: with no writer during the request, the response's totalRevenue is the
\* sum of amount over the rows whose status is success and failedTransactions
\* is the number of rows whose status is failed, in the store as it is at the
\* call, after any creates and status updates before it.
C8_StatsReflectStoreAtCall ==
  /\ stats.pc \notin {"idle", "todayPayments", "weekPayments", "totalRevenue"} =>
       stats.totalRevenue = SumAmount(payments, {i \in Ids : payments[i].status = "success"})
  /\ stats.pc \notin {"idle", "todayPayments", "weekPayments", "totalRevenue",
                       "failedTransactions"} =>
       stats.failedTransactions = Cardinality({i \in Ids : payments[i].status = "failed"})

\* A response over a store with revenue and with a payment that a status
\* update has made failed.
C8_Witness ==
  /\ stats.pc = "done"
  /\ stats.totalRevenue > 0
  /\ stats.failedTransactions > 0
  /\ upd["u1"].result = "ok"

\* ------------------------------------------------------------------ C9
\* C9: for every store state the counts of the status breakdown sum to the
\* number of rows, and so do the counts of the payment methods breakdown, as
\* computed on the store and as read by a stats request.
C9_BreakdownCountsSumToTotal ==
  /\ SumCount(StatusBreakdown(payments)) = Len(payments)
  /\ SumCount(PaymentMethodsBreakdown(payments)) = Len(payments)
  /\ stats.pc \in {"statusBreakdown", "recentTransactions", "controllerTrend", "done"} =>
       SumCount(stats.paymentMethods) = Len(payments)
  /\ stats.pc \in {"recentTransactions", "controllerTrend", "done"} =>
       SumCount(stats.statusBreakdown) = Len(payments)

\* A response whose breakdowns have several groups each.
C9_Witness ==
  /\ stats.pc = "done"
  /\ Cardinality(stats.statusBreakdown) >= 2
  /\ Cardinality(stats.paymentMethods) >= 2
  /\ \E g \in stats.statusBreakdown : g.status = "pending"

\* ----------------------------------------------------------------- C10
\* C10: a finished getRevenueTrend(days) call has exactly days entries, each
\* dated one day after the one before it, the last dated today (the local or
\* the UTC calendar day at some moment of the call), and over an empty store
\* every revenue is 0.
C10_TrendContiguousToToday ==
  (trend.pc = "done" /\ trend.days >= 1) =>
    /\ Len(trend.data) = trend.days
    /\ \A k \in 1..(trend.days - 1) : trend.data[k + 1].date = trend.data[k].date + 1
    /\ \E t \in trend.t0..trend.t1 :
         trend.data[trend.days].date \in {LocalDay(t), UtcDay(t)}
    /\ payments = <<>> => \A k \in 1..trend.days : trend.data[k].revenue = 0

\* ----------------------------------------------------------------- C11
\* C11: in every reachable store state, after seeding and creates (also
\* creates in the same clock tick and creates in flight together), no two
\* rows have the same transactionId and every row's transactionId is not
\* empty.
C11_TransactionIdsUnique ==
  /\ \A i, j \in Ids : i # j => payments[i].transactionId # payments[j].transactionId
  /\ \A i \in Ids : payments[i].transactionId # <<>>

\* ----------------------------------------------------------------- C12
\* C12: a create whose generated transactionId met one already stored has
\* made a second attempt with a new id, and a create fails only as Conflict
\* and only after that second attempt.
C12_CollisionRetriedOnce ==
  \A p \in Procs :
    /\ crt[p].collided => crt[p].attempts = 2
    /\ crt[p].result \notin {"none", "ok", "BadRequest"} =>
         (crt[p].result = "Conflict" /\ crt[p].attempts = 2)

\* ----------------------------------------------------------------- C13
\* C13: every row of every reachable store state has createdAt <= updatedAt,
\* after seeding with back-dated createdAt, creates and status updates.
C13_CreatedNotAfterUpdated ==
  \A i \in Ids : payments[i].createdAt <= payments[i].updatedAt

\* A seeded row, back-dated, whose status an update has changed, beside a
\* created row.
C13_Witness ==
  \E i, j \in Ids :
    /\ payments[i].createdAt = now - MaxDaysAgo * DayLen - 1
    /\ payments[i].status = "failed"
    /\ payments[i].updatedAt = now
    /\ payments[j].transactionId[3] \in Suffixes

\* ----------------------------------------------------------------- C14
\* The date condition as stated: from startDate, when given, up to the end of
\* the endDate day, when given.
ClaimedDateMatch(row, f) ==
  /\ (f.startDate = <<>> \/ row.createdAt >= DateOf(f.startDate[1]))
  /\ (f.endDate = <<>> \/ row.createdAt < DateOf(f.endDate[1] + 1))

\* C14: a list or export request with only date fields in its filter matches
\* exactly the rows with (startDate absent or createdAt >= startDate) and
\* (endDate absent or createdAt < endDate + 1 day).
C14_DateFilterHalfOpen ==
  (req.op \in {"findAll", "export"} /\ req.outcome = "ok" /\ req.finite
     /\ req.filters.status = "" /\ req.filters.method = "") =>
    req.ids = {i \in 1..Len(req.snap) : ClaimedDateMatch(req.snap[i], req.filters)}

\* ----------------------------------------------------------------- C15
\* C15: a findAll with page < 1 or limit < 1 (and a valid filter) ends
\* InvalidArgument with no envelope, without a statement sent to the store,
\* and never with a totalPages that is not a number.
C15_BadPagingRefused ==
  (req.op = "findAll" /\ req.outcome # "BadRequest" /\ (req.page < 1 \/ req.limit < 1)) =>
    /\ req.outcome = "InvalidArgument"
    /\ ~req.queried
    /\ req.finite

\* ----------------------------------------------------------------- C16
\* The rows ids by createdAt descending, rows of equal createdAt by id
\* descending.
IdDescOrder(table, ids) ==
  CHOOSE f \in Orderings(table, ids) :
    \A i, j \in 1..Cardinality(ids) :
      (i < j /\ table[f[i]].createdAt = table[f[j]].createdAt) => f[i] > f[j]

\* C16: the slice a findAll returns is the slice of the matching rows ordered
\* by createdAt descending and then id descending, hence the same for the
\* same request on the same store.
C16_TiesBrokenById ==
  (req.op = "findAll" /\ req.outcome = "ok" /\ req.limit >= 1) =>
    req.data = Slice(IdDescOrder(req.snap, req.ids), req.skip, req.take)

\* ----------------------------------------------------------------- C17
\* C17: a list or export request (with page >= 1 and limit >= 1) whose
\* status or method filter is not of the enumerations ends as a validation error with no statement sent to the
\* store.
C17_BadEnumFilterRefused ==
  (req.op \in {"findAll", "export"} /\ req.page >= 1 /\ req.limit >= 1
     /\ (req.filters.status \notin PaymentStatus \cup {""}
           \/ req.filters.method \notin PaymentMethod \cup {""})) =>
    (req.outcome = "BadRequest" /\ ~req.queried)

\* ----------------------------------------------------------------- C18
\* C18: a quick-stats response computed on one store state has successRate 0
\* on the empty store, and otherwise the tenths of a percent nearest to
\* successful / total * 100, between 0 and 100 percent.
C18_SuccessRateOfStore ==
  (req.op = "quickStats" /\ req.pc = "done" /\ req.snap = payments) =>
    LET total == Len(payments)
        successful == Cardinality({i \in Ids : payments[i].status = "success"})
        rate == req.successRate
    IN /\ total = 0 => rate = 0
       /\ total > 0 => /\ 2 * rate * total - total <= 2000 * successful
                       /\ 2000 * successful < 2 * rate * total + total
       /\ rate >= 0 /\ rate <= 1000

\* A response over three payments, two of them successful: 66.7 percent.
C18_Witness ==
  /\ req.op = "quickStats" /\ req.pc = "done" /\ req.snap = payments
  /\ Len(payments) = 3
  /\ req.successRate = 667

\* ----------------------------------------------------------------- C19
\* The number of successful payments created in hour h.
SuccessInHour(table, h) ==
  Cardinality({i \in 1..Len(table) : table[i].status = "success"
                                       /\ HourOf(table[i].createdAt) = h})

\* C19: over a store with successful payments the peak hour of a quick-stats
\* response is an hour of the day with the largest count of successful
\* payments, and the lowest such hour.
C19_PeakHourLowestOfTies ==
  (req.op = "quickStats" /\ req.pc = "done" /\ req.snap = payments
     /\ \E i \in Ids : payments[i].status = "success") =>
    LET h == req.peakHour[1]
    IN /\ h \in 0..(DayLen - 1)
       /\ \A o \in 0..(DayLen - 1) :
            /\ SuccessInHour(payments, o) <= SuccessInHour(payments, h)
            /\ SuccessInHour(payments, o) = SuccessInHour(payments, h) => h <= o

\* ----------------------------------------------------------------- C20
\* C20: the result of getSuccessRateTrend(days) has an entry for every
\* calendar day from the day of the window's start to today, with
\* successRate 0 for a day without transactions, and every successRate is
\* between 0 and 100 percent.
C20_EmptyDayReportedZero ==
  req.op = "successRateTrend" =>
    LET res == req.result
    IN /\ \A d \in UtcDay(req.startDate)..UtcDay(req.at) :
            \E k \in 1..Len(res) :
              /\ res[k].date = d
              /\ res[k].total = 0 => res[k].successRate = 0
       /\ \A k \in 1..Len(res) : res[k].successRate >= 0 /\ res[k].successRate <= 10000

\* ------------------------------------------------------------------ C21
\* C21: an aggregation whose query found the store unreachable hands its
\* caller an error, never a value.
C21_OutageSurfaced ==
  (agg.pc = "done" /\ agg.failed) => (agg.result = "error" /\ agg.value = <<>>)

\* ------------------------------------------------------------------ C22
\* C22: no two users share a username, and a create call that ends while
\* the store holds its username ends with Conflict and leaves the store as
\* it was.
C22_DuplicateUsernameConflicts ==
  [][ /\ \A i, j \in 1..Len(users') : users'[i].username = users'[j].username => i = j
      /\ \A p \in Procs :
           ( /\ ucr[p].pc # "done" /\ ucr'[p].pc = "done" /\ ucr'[p].op = "create"
             /\ UsernameTaken(users, ucr'[p].dto[1].username) )
           => (ucr'[p].result = "Conflict" /\ users' = users) ]_vars

\* ------------------------------------------------------------------ C23
\* C23: every users row holds a hash as its password, and neither the object
\* create returns nor a row findAll or findOne returns has a password.
C23_NoPlaintextPassword ==
  /\ \A i \in 1..Len(users) : users[i].password.hashed
  /\ \A p \in Procs :
       /\ \A k \in 1..Len(ucr[p].user) : "password" \notin DOMAIN ucr[p].user[k]
       /\ \A k \in 1..Len(ucr[p].rows) : "password" \notin DOMAIN ucr[p].rows[k]

\* A user created by create and one saved by createSeedUser are stored beside
\* the seeded ones, while create's object and findAll's rows are at hand.
C23_Witness ==
  /\ Len(users) >= Len(DefaultUsers) + 2
  /\ \E i \in 1..Len(users) : users[i].username = "bob"
  /\ \E p, q \in Procs :
       /\ ucr[p].op = "create" /\ ucr[p].result = "ok" /\ ucr[p].user # <<>>
       /\ ucr[q].op = "findAll" /\ Len(ucr[q].rows) >= Len(DefaultUsers) + 1

\* ------------------------------------------------------------------ C24
\* C24: the save of a successful updateStatus leaves the number of rows,
\* every other row and every column of its row but status and updatedAt as
\* they were, and the row has the requested status.
C24_UpdateStatusFrame ==
  [][ \A p \in Procs :
        (upd[p].pc = "save" /\ upd'[p].pc = "idle" /\ upd'[p].result = "ok") =>
          LET id == upd[p].id IN
            /\ Len(payments') = Len(payments)
            /\ \A i \in 1..Len(payments) : i # id => payments'[i] = payments[i]
            /\ DOMAIN payments'[id] = DOMAIN payments[id]
            /\ \A f \in DOMAIN payments[id] \ {"status", "updatedAt"} :
                 payments'[id][f] = payments[id][f]
            /\ payments'[id].status = upd[p].status ]_vars

\* An updateStatus has succeeded on a store of two rows: a row is failed
\* (no row is created or seeded so) and was updated after it was created.
C24_Witness ==
  /\ upd["u1"].result = "ok"
  /\ Len(payments) >= 2
  /\ \E id \in Ids : /\ payments[id].status = "failed"
                     /\ payments[id].updatedAt > payments[id].createdAt
                     /\ payments[id].transactionId # <<>>

\* ------------------------------------------------------------------ C30
\* The usernames of a users table.
Usernames(table) == {table[i].username : i \in 1..Len(table)}

\* C30: seedDatabase adds sample payments only when the payments table is
\* empty, and then every sample row (MaxSeedRows of them here); it adds only
\* default users whose names are missing; run on a store that an earlier
\* bootstrap has seeded it leaves both tables as they are.
C30_SeedingIdempotent ==
  [][ /\ (seed.pc = "start" /\ seed'.pc # "start") =>
           /\ payments' = payments
           /\ (seed'.pc = "payments") = (Len(payments) = 0)
           /\ SubSeq(users', 1, Len(users)) = users
           /\ \A i \in (Len(users) + 1)..Len(users') :
                /\ users'[i].username \notin Usernames(users)
                /\ \E k \in 1..Len(DefaultUsers) :
                     users'[i].username = DefaultUsers[k].username
           /\ (seed.rerun => (users' = users /\ seed'.pc = "done"))
      /\ (seed.pc = "payments") =>
           /\ Len(payments') = Len(payments) + 1
           /\ SubSeq(payments', 1, Len(payments)) = payments
           /\ users' = users
           /\ (seed'.pc = "done" => Len(payments') = MaxSeedRows) ]_vars

\* The server was started again and its bootstrap has run, on a store that
\* holds created payments and users beside the seeded ones.
C30_Witness ==
  /\ seed.rerun /\ seed.pc = "done"
  /\ Len(payments) > MaxSeedRows
  /\ Len(users) > Len(DefaultUsers)

\* ------------------------------------------------------------------ C27
\* C27: when the last of the events 401 response, logout and successful
\* login was a 401 or a logout, ApiService has no token in memory and none
\* is stored, and a request is sent without Authorization; when it was a
\* successful login, the token in memory is that login's and a request is
\* sent with it.
C27_TokenFollowsLastEvent ==
  [][ /\ (api'.last = "cleared" => (api'.authToken = <<>> /\ storage'.token = <<>>))
      /\ (api'.last = "login" => (api'.authToken = api'.lastToken /\ api'.lastToken # <<>>))
      /\ (Len(api'.pending) = Len(api.pending) + 1) =>
            LET sent == api'.pending[Len(api'.pending)] IN
              /\ (api.last = "cleared" => sent.auth = <<>>)
              /\ (api.last = "login" => sent.auth = api.lastToken) ]_vars

\* After a second login a request has gone out with its token, while one
\* sent with the token of the login before is still in flight.
C27_Witness ==
  /\ api.last = "login" /\ api.lastToken = <<"t2">>
  /\ Len(api.pending) = 2
  /\ api.pending[1].auth = <<"t1">>
  /\ api.pending[2].auth = <<"t2">>
  /\ storage.token = <<"t2">>

\* ------------------------------------------------------------------ C28
\* Whether a text is a number from end to end, once trimmed.
IsNumeric(text) ==
  LET t == Trim(text) IN ~ParseFloatOf(t).nan /\ ParseFloatOf(t).read = Len(t)

\* A valid form: amount and receiver not empty, the amount a positive number.
ValidForm(form) ==
  /\ Trim(form.amount) # <<>>
  /\ Trim(form.receiver) # <<>>
  /\ IsNumeric(form.amount)
  /\ ParseFloatOf(form.amount).value > 0

\* C28: in the fallback variant a handleSubmit whose createPayment was
\* rejected puts the payment once at the head of the local list and alerts
\* Success; a request is made only with a valid form, and the local list
\* changes in no other way.
C28_FallbackStoresInvalidRefused ==
  [][ addp.variant = "fallback" =>
        /\ (Len(addp'.active) < Len(addp.active) /\ addp'.path = "local") =>
             /\ \E k \in 1..Len(addp.active) :
                  storage'.transactions =
                    <<NewTransaction(addp.active[k], now)>> \o storage.transactions
             /\ addp'.alert = "Success"
        /\ (Len(addp'.active) > Len(addp.active)) => ValidForm(addp.formData)
        /\ (storage'.transactions # storage.transactions) =>
             (Len(addp'.active) < Len(addp.active) /\ addp'.path = "local") ]_vars

\* ------------------------------------------------------------------ C29
\* C29: loading is true exactly while a handleSubmit waits for
\* createPayment, of which there is one at most; it becomes true only with
\* a form whose amount and receiver are not blank and whose amount parses
\* to a positive number, and it is false when a handleSubmit has ended.
C29_LoadingWhileSubmitting ==
  [][ /\ addp'.loading = (Len(addp'.active) > 0)
      /\ Len(addp'.active) <= 1
      /\ (~addp.loading /\ addp'.loading) =>
           /\ Trim(addp.formData.amount) # <<>>
           /\ Trim(addp.formData.receiver) # <<>>
           /\ ~ParseFloatOf(addp.formData.amount).nan
           /\ ParseFloatOf(addp.formData.amount).value > 0
      /\ (Len(addp'.active) < Len(addp.active)) => ~addp'.loading
      /\ (addp'.path = "invalid" /\ addp.path # "invalid") => ~addp'.loading ]_vars

\* A second submission waits for createPayment after a first one has ended
\* in the local list.
C29_Witness ==
  /\ addp.loading /\ Len(addp.active) = 1
  /\ Len(storage.transactions) = 1

\* ------------------------------------------------------------------ C25
\* The entries of q whose id list l has not, in their order.
RECURSIVE NotIn(_, _)
NotIn(q, l) ==
  IF q = <<>> THEN <<>>
  ELSE (IF \E i \in 1..Len(l) : l[i].id = Head(q).id THEN <<>> ELSE <<Head(q)>>)
       \o NotIn(Tail(q), l)

\* C25: the list combined from a local list and a server response is the
\* local entries in their order, then the server entries whose id is not a
\* local one in theirs, and no two of its entries have the same id.
C25_MergeLocalFirstNoDuplicates ==
  web.path = "api" =>
    /\ web.all = web.local \o NotIn(web.server, web.local)
    /\ \A i, j \in 1..Len(web.all) : web.all[i].id = web.all[j].id => i = j

\* ------------------------------------------------------------------ C26
\* C26: on the mobile transaction list, once applyFilters or clearFilters
\* has run and every getPayments call has resolved, the list displayed is
\* made of pages asked with the filters it ran with, page 1 first and each
\* page once in page order, and the page counter is the number of pages
\* displayed.
C26_ListOfCurrentFilters ==
  (txl.applied /\ txl.pending = <<>> /\ ~txl.rejected) =>
    /\ \A i \in 1..Len(txl.transactions) :
         /\ txl.transactions[i].filters = txl.current
         /\ txl.transactions[i].page = i
    /\ txl.page = Len(txl.transactions)

====
